---- MODULE Spec2Model ----
(***************************************************************************)
(* RevenueBridge (contracts/RevenueBridge.sol) together with the token     *)
(* partition store it drives (MockNBPT, test/mocks/MockNBPT.sol).          *)
(*                                                                         *)
(* Every external function is one action.  A transaction is computed by an *)
(* operator over the world record (contract storage plus the token store's *)
(* balances) that returns the outcome: the error it reverted with or "ok", *)
(* the world after it, its return value, its events and the calls it made  *)
(* into the token store.  A reverted transaction leaves the world as it    *)
(* was, so a failing call is a step that changes nothing; what its caller  *)
(* observes of it is the outcome the operator returns.                     *)
(*                                                                         *)
(* keccak256 is taken to be injective: an invoice hash is the invoice id,  *)
(* a settlement id is the tuple that is hashed.  uint256 is scaled to      *)
(* UintBits bits; arithmetic is checked (Solidity ^0.8) and panics on      *)
(* overflow or underflow.                                                  *)
(***************************************************************************)
EXTENDS Integers, Sequences, FiniteSets, TLC

VARIABLES
    bridgeOperator,        \* address public bridgeOperator
    allocation,            \* AllocationConfig public allocation
    invoiceToSettlement,   \* mapping(bytes32 => bytes32)
    settlements,           \* mapping(bytes32 => RevenueEntry)
    totalRevenueBridged,   \* uint256
    totalRevenueReversed,  \* uint256
    settlementNonce,       \* uint256 private _settlementNonce
    paused,                \* Pausable._paused
    guard,                 \* ReentrancyGuard._status
    balances,              \* MockNBPT._partitionBalances
    partitionTotals,       \* MockNBPT._partitionTotals
    now,                   \* block.timestamp
    issuanceLog,           \* the RevenueBridged and PartitionIssued events emitted so far
    reversalLog,           \* the settlement ids of the RevenueReversed events emitted so far
    calcIn,                \* calculator harness: the amount asked about
    calcOut                \* calculator harness: <<>> or the answer to calcIn

vars == <<bridgeOperator, allocation, invoiceToSettlement, settlements,
          totalRevenueBridged, totalRevenueReversed, settlementNonce,
          paused, guard, balances, partitionTotals, now,
          issuanceLog, reversalLog, calcIn, calcOut>>

----------------------------------------------------------------------------
(* Bounds of the model *)

\* block.timestamp ranges over 1..MaxTime
MaxTime == 2
\* width of the scaled unsigned integer type standing for uint256
UintBits == 29

UintMax == 2^UintBits - 1

----------------------------------------------------------------------------
(* Program constants *)

BASIS_POINTS == 10000

SOURCE_STRIPE == "STRIPE"
SOURCE_MERCURY == "MERCURY"
DEST_DAO_TREASURY == "NOBLEPORT_DAO"
DEST_OPERATIONS == "NOBLEPORT_OPS"

PENDING == "PENDING"
SETTLED == "SETTLED"
REVERSED == "REVERSED"
DISPUTED == "DISPUTED"
SettlementStatus == {PENDING, SETTLED, REVERSED, DISPUTED}

PARTITION_RESERVE == "RESERVE"
PARTITION_LIQUIDITY == "LIQUIDITY"
PARTITION_ENTERPRISE == "ENTERPRISE"
PARTITION_STAKING == "STAKING"
Partitions == {PARTITION_RESERVE, PARTITION_LIQUIDITY,
               PARTITION_ENTERPRISE, PARTITION_STAKING}

NOT_ENTERED == "NOT_ENTERED"
ENTERED == "ENTERED"

----------------------------------------------------------------------------
(* Identities and inputs *)

ZeroAddr == "0x0"
Owner == "owner"
Operator == "operator"
Outsider == "outsider"
Treasury == "treasury"
Vault == "vault"
Payer == "payer"
Self == "bridge"          \* address(this)

\* externally owned accounts that send transactions
Callers == {Owner, Operator, Outsider}
\* accounts that hold partition balances
Accounts == {Treasury, Vault}

\* invoice ids the operator process submits
Invoices == {"inv_1", "inv_2"}

\* amounts submitted: zero; one that leaves two partitions empty and a
\* remainder (3 splits 1/0/0/2 by default); one too large to multiply
Amounts == {0, 3, UintMax}
\* amounts submitted through the Stripe variant
StripeAmounts == {0, 3}
\* amounts a call is probed with in the properties below
ProbeAmounts == {0, 1, 3, 99, 10000, UintMax}
\* values offered to setOperator
OperatorInputs == {ZeroAddr, Operator, Outsider}

Config(r, l, e, s) ==
    [reserveBps |-> r, liquidityBps |-> l, enterpriseBps |-> e, stakingBps |-> s]
DefaultConfig == Config(4000, 3000, 2000, 1000)
\* values offered to setAllocation: two that sum to 10000, two that do not,
\* one whose sum does not fit the word
ConfigInputs == {DefaultConfig, Config(2500, 2500, 2500, 2500),
                 Config(5000, 3000, 2000, 1000), Config(3333, 3333, 3333, 0),
                 Config(UintMax, 1, 0, 0)}

\* bytes32(0), and an id no bridging ever produced
NullId == <<"", 0, 0>>
FakeId == <<"fake", 0, 0>>

----------------------------------------------------------------------------
(* The world a transaction runs against, and its outcome *)

World ==
    [bridgeOperator |-> bridgeOperator, allocation |-> allocation,
     invoiceToSettlement |-> invoiceToSettlement, settlements |-> settlements,
     totalRevenueBridged |-> totalRevenueBridged,
     totalRevenueReversed |-> totalRevenueReversed,
     settlementNonce |-> settlementNonce, paused |-> paused, guard |-> guard,
     balances |-> balances, partitionTotals |-> partitionTotals]

\* mutant: a failing call leaves the settlement nonce it consumed behind
RevertWith_KeepsNonce(s, e, data) ==
    [err |-> e, errArgs |-> data, st |-> [s EXCEPT !.settlementNonce = @ + 1],
     ret |-> <<>>, events |-> <<>>, calls |-> <<>>]

\* a revert: the error surfaces, nothing the call did persists
RevertWith(s, e, data) ==
    [err |-> e, errArgs |-> data, st |-> s, ret |-> <<>>, events |-> <<>>, calls |-> <<>>]
Revert(s, e) == RevertWith(s, e, <<>>)
Done(s, r, ev, cs) ==
    [err |-> "ok", errArgs |-> <<>>, st |-> s, ret |-> r, events |-> ev, calls |-> cs]

\* checked uint arithmetic
MulOverflows(a, b) == b # 0 /\ a > UintMax \div b
AddOverflows(a, b) == a > UintMax - b

\* Ownable.owner(): set by the constructor; nothing in the contract changes it
owner == Owner

\* the default value of an unset mapping slot of settlements
ZeroEntry ==
    [invoiceId |-> "", payer |-> ZeroAddr, beneficiary |-> ZeroAddr, amount |-> 0,
     currency |-> ZeroAddr, sourceSystem |-> "", destinationSystem |-> "",
     settlementId |-> NullId, status |-> PENDING, bridgedAt |-> 0, settledAt |-> 0]

\* settlements[id] as storage reads it
EntryAt(s, id) == IF id \in DOMAIN s.settlements THEN s.settlements[id] ELSE ZeroEntry

----------------------------------------------------------------------------
(* Allocation calculator *)

Split(r, l, e, k) ==
    [reserveAmt |-> r, liquidityAmt |-> l, enterpriseAmt |-> e, stakingAmt |-> k]

\* mutant: the three shares are rounded up instead of down
CalculateAllocations_RoundsUp(alloc, _amount) ==
    IF \/ MulOverflows(_amount, alloc.reserveBps)
       \/ MulOverflows(_amount, alloc.liquidityBps)
       \/ MulOverflows(_amount, alloc.enterpriseBps)
    THEN [panic |-> TRUE, amts |-> Split(0, 0, 0, 0)]
    ELSE LET reserveAmt == (_amount * alloc.reserveBps + BASIS_POINTS - 1) \div BASIS_POINTS
             liquidityAmt == (_amount * alloc.liquidityBps + BASIS_POINTS - 1) \div BASIS_POINTS
             enterpriseAmt == (_amount * alloc.enterpriseBps + BASIS_POINTS - 1) \div BASIS_POINTS
             stakingAmt == _amount - reserveAmt - liquidityAmt - enterpriseAmt
         IN IF stakingAmt < 0
            THEN [panic |-> TRUE, amts |-> Split(0, 0, 0, 0)]
            ELSE [panic |-> FALSE,
                  amts |-> Split(reserveAmt, liquidityAmt, enterpriseAmt, stakingAmt)]

\* mutant: staking gets its own truncated share instead of the remainder
CalculateAllocations_OwnShare(alloc, _amount) ==
    IF \/ MulOverflows(_amount, alloc.reserveBps)
       \/ MulOverflows(_amount, alloc.liquidityBps)
       \/ MulOverflows(_amount, alloc.enterpriseBps)
       \/ MulOverflows(_amount, alloc.stakingBps)
    THEN [panic |-> TRUE, amts |-> Split(0, 0, 0, 0)]
    ELSE [panic |-> FALSE,
          amts |-> Split((_amount * alloc.reserveBps) \div BASIS_POINTS,
                         (_amount * alloc.liquidityBps) \div BASIS_POINTS,
                         (_amount * alloc.enterpriseBps) \div BASIS_POINTS,
                         (_amount * alloc.stakingBps) \div BASIS_POINTS)]

\* _calculateAllocations: panic is TRUE when checked arithmetic reverts
CalculateAllocations(alloc, _amount) ==
    IF \/ MulOverflows(_amount, alloc.reserveBps)
       \/ MulOverflows(_amount, alloc.liquidityBps)
       \/ MulOverflows(_amount, alloc.enterpriseBps)
    THEN [panic |-> TRUE, amts |-> Split(0, 0, 0, 0)]
    ELSE LET reserveAmt == (_amount * alloc.reserveBps) \div BASIS_POINTS
             liquidityAmt == (_amount * alloc.liquidityBps) \div BASIS_POINTS
             enterpriseAmt == (_amount * alloc.enterpriseBps) \div BASIS_POINTS
             stakingAmt == _amount - reserveAmt - liquidityAmt - enterpriseAmt
         IN IF stakingAmt < 0
            THEN [panic |-> TRUE, amts |-> Split(0, 0, 0, 0)]
            ELSE [panic |-> FALSE,
                  amts |-> Split(reserveAmt, liquidityAmt, enterpriseAmt, stakingAmt)]

----------------------------------------------------------------------------
(* Token partition store (MockNBPT) *)

\* issueToPartition
IssueToPartition(s, partition, account, amount) ==
    IF \/ AddOverflows(s.balances[<<partition, account>>], amount)
       \/ AddOverflows(s.partitionTotals[partition], amount)
    THEN [ok |-> FALSE, err |-> "Panic", st |-> s]
    ELSE [ok |-> TRUE, err |-> "ok",
          st |-> [s EXCEPT !.balances[<<partition, account>>] = @ + amount,
                           !.partitionTotals[partition] = @ + amount]]

\* mutant: the balance is lowered without being compared to the amount
BurnFromPartition_NoRequire(s, partition, account, amount) ==
    [ok |-> TRUE, err |-> "ok",
     st |-> [s EXCEPT !.balances[<<partition, account>>] = @ - amount,
                      !.partitionTotals[partition] = @ - amount]]

\* burnFromPartition
BurnFromPartition(s, partition, account, amount) ==
    IF ~(s.balances[<<partition, account>>] >= amount)
    THEN [ok |-> FALSE, err |-> "Insufficient balance", st |-> s]
    ELSE IF s.partitionTotals[partition] < amount
    THEN [ok |-> FALSE, err |-> "Panic", st |-> s]
    ELSE [ok |-> TRUE, err |-> "ok",
          st |-> [s EXCEPT !.balances[<<partition, account>>] = @ - amount,
                           !.partitionTotals[partition] = @ - amount]]

\* balanceOfByPartition
BalanceOfByPartition(s, partition, account) == s.balances[<<partition, account>>]

\* the four partitions in the order the bridge walks them, with their amounts
PartitionOrder(amts) ==
    << <<PARTITION_RESERVE, amts.reserveAmt>>, <<PARTITION_LIQUIDITY, amts.liquidityAmt>>,
       <<PARTITION_ENTERPRISE, amts.enterpriseAmt>>, <<PARTITION_STAKING, amts.stakingAmt>> >>

\* mutant: the guard is missing, so a zero amount is issued too
IssueOne_AlsoZero(acc, _settlementId, _recipient, partition, amt) ==
    IF ~acc.ok THEN acc
    ELSE LET r == IssueToPartition(acc.st, partition, _recipient, amt)
         IN IF ~r.ok THEN [acc EXCEPT !.ok = FALSE, !.err = r.err]
            ELSE [ok |-> TRUE, err |-> "ok", st |-> r.st,
                  events |-> Append(acc.events,
                      [name |-> "PartitionIssued", settlementId |-> _settlementId,
                       partition |-> partition, recipient |-> _recipient, amount |-> amt]),
                  calls |-> Append(acc.calls, <<"issue", partition, _recipient, amt>>)]

\* mutant: the guard reads amt > 1, so an amount of 1 is never issued
IssueOne_SkipsOne(acc, _settlementId, _recipient, partition, amt) ==
    IF ~acc.ok \/ ~(amt > 1) THEN acc
    ELSE LET r == IssueToPartition(acc.st, partition, _recipient, amt)
         IN IF ~r.ok THEN [acc EXCEPT !.ok = FALSE, !.err = r.err]
            ELSE [ok |-> TRUE, err |-> "ok", st |-> r.st,
                  events |-> Append(acc.events,
                      [name |-> "PartitionIssued", settlementId |-> _settlementId,
                       partition |-> partition, recipient |-> _recipient, amount |-> amt]),
                  calls |-> Append(acc.calls, <<"issue", partition, _recipient, amt>>)]

\* one "if (amt > 0) { issue; emit PartitionIssued }" of _issueToPartitions
IssueOne(acc, _settlementId, _recipient, partition, amt) ==
    IF ~acc.ok \/ ~(amt > 0) THEN acc
    ELSE LET r == IssueToPartition(acc.st, partition, _recipient, amt)
         IN IF ~r.ok THEN [acc EXCEPT !.ok = FALSE, !.err = r.err]
            ELSE [ok |-> TRUE, err |-> "ok", st |-> r.st,
                  events |-> Append(acc.events,
                      [name |-> "PartitionIssued", settlementId |-> _settlementId,
                       partition |-> partition, recipient |-> _recipient, amount |-> amt]),
                  calls |-> Append(acc.calls, <<"issue", partition, _recipient, amt>>)]

\* _issueToPartitions
IssueToPartitions(s, _settlementId, _recipient, amts) ==
    LET o == PartitionOrder(amts)
        a0 == [ok |-> TRUE, err |-> "ok", st |-> s, events |-> <<>>, calls |-> <<>>]
        a1 == IssueOne(a0, _settlementId, _recipient, o[1][1], o[1][2])
        a2 == IssueOne(a1, _settlementId, _recipient, o[2][1], o[2][2])
        a3 == IssueOne(a2, _settlementId, _recipient, o[3][1], o[3][2])
    IN IssueOne(a3, _settlementId, _recipient, o[4][1], o[4][2])

\* mutant: burns one unit less than asked
BurnOne_OneLess(acc, _account, partition, amt) ==
    IF ~acc.ok \/ ~(amt > 0) THEN acc
    ELSE LET r == BurnFromPartition(acc.st, partition, _account, amt - 1)
         IN IF ~r.ok THEN [acc EXCEPT !.ok = FALSE, !.err = r.err]
            ELSE [acc EXCEPT !.st = r.st,
                             !.calls = Append(@, <<"burn", partition, _account, amt - 1>>)]

\* mutant: a failed burn is skipped and the walk goes on
BurnOne_IgnoresFailure(acc, _account, partition, amt) ==
    IF ~acc.ok \/ ~(amt > 0) THEN acc
    ELSE LET r == BurnFromPartition(acc.st, partition, _account, amt)
         IN IF ~r.ok THEN acc
            ELSE [acc EXCEPT !.st = r.st,
                             !.calls = Append(@, <<"burn", partition, _account, amt>>)]

\* one "if (amt > 0) { burn }" of _burnFromPartitions
BurnOne(acc, _account, partition, amt) ==
    IF ~acc.ok \/ ~(amt > 0) THEN acc
    ELSE LET r == BurnFromPartition(acc.st, partition, _account, amt)
         IN IF ~r.ok THEN [acc EXCEPT !.ok = FALSE, !.err = r.err]
            ELSE [acc EXCEPT !.st = r.st,
                             !.calls = Append(@, <<"burn", partition, _account, amt>>)]

\* mutant: the walk stops before the staking partition
BurnFromPartitions_SkipsStaking(s, _account, amts) ==
    LET o == PartitionOrder(amts)
        a0 == [ok |-> TRUE, err |-> "ok", st |-> s, events |-> <<>>, calls |-> <<>>]
        a1 == BurnOne(a0, _account, o[1][1], o[1][2])
        a2 == BurnOne(a1, _account, o[2][1], o[2][2])
    IN BurnOne(a2, _account, o[3][1], o[3][2])

\* _burnFromPartitions
BurnFromPartitions(s, _account, amts) ==
    LET o == PartitionOrder(amts)
        a0 == [ok |-> TRUE, err |-> "ok", st |-> s, events |-> <<>>, calls |-> <<>>]
        a1 == BurnOne(a0, _account, o[1][1], o[1][2])
        a2 == BurnOne(a1, _account, o[2][1], o[2][2])
        a3 == BurnOne(a2, _account, o[3][1], o[3][2])
    IN BurnOne(a3, _account, o[4][1], o[4][2])

----------------------------------------------------------------------------
(* Modifiers *)

\* onlyOperator: TRUE when the body may run
OnlyOperator(s, sender) == ~(sender # s.bridgeOperator /\ sender # owner)

\* mutant: onlyOwner lets everyone through
OnlyOwner_Anyone(sender) == TRUE

\* Ownable.onlyOwner
OnlyOwner(sender) == sender = owner

\* mutant: nonReentrant is missing from the chain
OperatorGate_NoGuard(s, sender) ==
    IF ~OnlyOperator(s, sender) THEN "Unauthorized"
    ELSE IF s.paused THEN "EnforcedPause"
    ELSE "ok"

\* mutant: the chain reads "whenNotPaused onlyOperator nonReentrant"
OperatorGate_PauseFirst(s, sender) ==
    IF s.paused THEN "EnforcedPause"
    ELSE IF ~OnlyOperator(s, sender) THEN "Unauthorized"
    ELSE IF s.guard = ENTERED THEN "ReentrancyGuardReentrantCall"
    ELSE "ok"

\* mutant: whenNotPaused is missing from the chain
OperatorGate_NoPause(s, sender) ==
    IF ~OnlyOperator(s, sender) THEN "Unauthorized"
    ELSE IF s.guard = ENTERED THEN "ReentrancyGuardReentrantCall"
    ELSE "ok"

\* the modifier chain "onlyOperator nonReentrant whenNotPaused": the error it
\* reverts with, or "ok"
OperatorGate(s, sender) ==
    IF ~OnlyOperator(s, sender) THEN "Unauthorized"
    ELSE IF s.guard = ENTERED THEN "ReentrancyGuardReentrantCall"
    ELSE IF s.paused THEN "EnforcedPause"
    ELSE "ok"

\* the modifier list of disputeSettlement: onlyOperator alone
DisputeGate(s, sender) == IF ~OnlyOperator(s, sender) THEN "Unauthorized" ELSE "ok"

----------------------------------------------------------------------------
(* Operator functions *)

\* mutant: the duplicate check never fires
DuplicateInvoice_Never(s, _invoiceId) == FALSE

\* mutant: the existence check never fires
NotFound_Never(entry) == FALSE

\* the existence check of reverseSettlement and disputeSettlement
NotFound(entry) == entry.bridgedAt = 0

\* mutant: the status check of reverseSettlement never fires
StatusIsNot_Never(entry, required) == FALSE

\* mutant: the status check lets a DISPUTED settlement through
StatusIsNot_DisputedPasses(entry, required) ==
    entry.status # required /\ entry.status # DISPUTED

\* the status check of reverseSettlement
StatusIsNot(entry, required) == entry.status # required

\* mutant: the amount check of bridgeRevenue never fires
AmountIsZero_Never(_amount) == FALSE

\* the amount check of bridgeRevenue
AmountIsZero(_amount) == _amount = 0

\* the duplicate-invoice check of bridgeRevenue
DuplicateInvoice(s, _invoiceId) == s.invoiceToSettlement[_invoiceId] # NullId

\* mutant: the id is derived from the block time alone
GenerateSettlementId_TimeOnly(_invoiceId, timestamp, nonce) == <<"t", timestamp, 0>>

\* _generateSettlementId, given the already incremented nonce
GenerateSettlementId(_invoiceId, timestamp, nonce) == <<_invoiceId, timestamp, nonce>>

\* mutant: the entry is stored in the zero status
NewEntry_Pending(a, settlementId, timestamp) ==
    [invoiceId |-> a.invoiceId, payer |-> a.payer, beneficiary |-> a.beneficiary,
     amount |-> a.amount, currency |-> a.currency, sourceSystem |-> a.sourceSystem,
     destinationSystem |-> a.destinationSystem, settlementId |-> settlementId,
     status |-> PENDING, bridgedAt |-> timestamp, settledAt |-> timestamp]

\* the RevenueEntry bridgeRevenue stores
NewEntry(a, settlementId, timestamp) ==
    [invoiceId |-> a.invoiceId, payer |-> a.payer, beneficiary |-> a.beneficiary,
     amount |-> a.amount, currency |-> a.currency, sourceSystem |-> a.sourceSystem,
     destinationSystem |-> a.destinationSystem, settlementId |-> settlementId,
     status |-> SETTLED, bridgedAt |-> timestamp, settledAt |-> timestamp]

\* mutant: the event carries no amount
RevenueBridgedEvent_NoAmount(a, settlementId, t) ==
    [name |-> "RevenueBridged", invoiceId |-> a.invoiceId,
     payer |-> a.payer, beneficiary |-> a.beneficiary,
     amount |-> 0, currency |-> a.currency,
     sourceSystem |-> a.sourceSystem, destinationSystem |-> a.destinationSystem,
     settlementId |-> settlementId, timestamp |-> t]

\* the RevenueBridged event bridgeRevenue emits
RevenueBridgedEvent(a, settlementId, t) ==
    [name |-> "RevenueBridged", invoiceId |-> a.invoiceId,
     payer |-> a.payer, beneficiary |-> a.beneficiary,
     amount |-> a.amount, currency |-> a.currency,
     sourceSystem |-> a.sourceSystem, destinationSystem |-> a.destinationSystem,
     settlementId |-> settlementId, timestamp |-> t]

\* mutant: the entry and the index are written, the bridged total is not
BridgeRevenue_NoTotal(s, sender, t, a) ==
    IF OperatorGate(s, sender) # "ok" THEN Revert(s, OperatorGate(s, sender))
    ELSE IF AmountIsZero(a.amount) THEN Revert(s, "ZeroAmount")
    ELSE IF a.beneficiary = ZeroAddr THEN Revert(s, "ZeroAddress")
    ELSE IF DuplicateInvoice(s, a.invoiceId)
    THEN RevertWith(s, "InvoiceAlreadyProcessed", <<a.invoiceId>>)
    ELSE LET nonce == s.settlementNonce + 1
             settlementId == GenerateSettlementId(a.invoiceId, t, nonce)
             c == CalculateAllocations(s.allocation, a.amount)
         IN IF c.panic \/ AddOverflows(s.totalRevenueBridged, a.amount)
            THEN Revert(s, "Panic")
            ELSE LET s1 == [s EXCEPT
                            !.settlementNonce = nonce,
                            !.settlements =
                                (settlementId :> NewEntry(a, settlementId, t)) @@ @,
                            !.invoiceToSettlement[a.invoiceId] = settlementId]
                     i == IssueToPartitions(s1, settlementId, a.beneficiary, c.amts)
                 IN IF ~i.ok THEN Revert(s, i.err)
                    ELSE Done(i.st, <<settlementId>>,
                              Append(i.events, RevenueBridgedEvent(a, settlementId, t)),
                              i.calls)

\* mutant: the id is generated before the duplicate check, whose rejection
\* keeps the nonce consumed
BridgeRevenue_LateDuplicateCheck(s, sender, t, a) ==
    IF OperatorGate(s, sender) # "ok" THEN Revert(s, OperatorGate(s, sender))
    ELSE IF AmountIsZero(a.amount) THEN Revert(s, "ZeroAmount")
    ELSE IF a.beneficiary = ZeroAddr THEN Revert(s, "ZeroAddress")
    ELSE IF DuplicateInvoice(s, a.invoiceId)
    THEN RevertWith([s EXCEPT !.settlementNonce = @ + 1],
                    "InvoiceAlreadyProcessed", <<a.invoiceId>>)
    ELSE LET nonce == s.settlementNonce + 1
             settlementId == GenerateSettlementId(a.invoiceId, t, nonce)
             c == CalculateAllocations(s.allocation, a.amount)
         IN IF c.panic \/ AddOverflows(s.totalRevenueBridged, a.amount)
            THEN Revert(s, "Panic")
            ELSE LET s1 == [s EXCEPT
                            !.settlementNonce = nonce,
                            !.settlements =
                                (settlementId :> NewEntry(a, settlementId, t)) @@ @,
                            !.invoiceToSettlement[a.invoiceId] = settlementId,
                            !.totalRevenueBridged = @ + a.amount]
                     i == IssueToPartitions(s1, settlementId, a.beneficiary, c.amts)
                 IN IF ~i.ok THEN Revert(s, i.err)
                    ELSE Done(i.st, <<settlementId>>,
                              Append(i.events, RevenueBridgedEvent(a, settlementId, t)),
                              i.calls)

\* bridgeRevenue called by sender at block time t; a holds the seven arguments
BridgeRevenue(s, sender, t, a) ==
    IF OperatorGate(s, sender) # "ok" THEN Revert(s, OperatorGate(s, sender))
    ELSE IF AmountIsZero(a.amount) THEN Revert(s, "ZeroAmount")
    ELSE IF a.beneficiary = ZeroAddr THEN Revert(s, "ZeroAddress")
    ELSE IF DuplicateInvoice(s, a.invoiceId)
    THEN RevertWith(s, "InvoiceAlreadyProcessed", <<a.invoiceId>>)
    ELSE LET nonce == s.settlementNonce + 1
             settlementId == GenerateSettlementId(a.invoiceId, t, nonce)
             c == CalculateAllocations(s.allocation, a.amount)
         IN IF c.panic \/ AddOverflows(s.totalRevenueBridged, a.amount)
            THEN Revert(s, "Panic")
            ELSE LET s1 == [s EXCEPT
                            !.settlementNonce = nonce,
                            !.settlements =
                                (settlementId :> NewEntry(a, settlementId, t)) @@ @,
                            !.invoiceToSettlement[a.invoiceId] = settlementId,
                            !.totalRevenueBridged = @ + a.amount]
                     i == IssueToPartitions(s1, settlementId, a.beneficiary, c.amts)
                 IN IF ~i.ok THEN Revert(s, i.err)
                    ELSE Done(i.st, <<settlementId>>,
                              Append(i.events, RevenueBridgedEvent(a, settlementId, t)),
                              i.calls)

\* the arguments bridgeStripeRevenue passes on
StripeArgs(_invoiceId, _amount, _beneficiary) ==
    [invoiceId |-> _invoiceId, amount |-> _amount, payer |-> ZeroAddr,
     beneficiary |-> _beneficiary, currency |-> ZeroAddr,
     sourceSystem |-> SOURCE_STRIPE, destinationSystem |-> DEST_DAO_TREASURY]

\* bridgeStripeRevenue: after its own modifiers it makes the external call
\* this.bridgeRevenue(...), whose msg.sender is the bridge itself and which
\* runs while the reentrancy guard is entered; a revert of that call bubbles up
BridgeStripeRevenue(s, sender, t, _invoiceId, _amount, _beneficiary) ==
    IF OperatorGate(s, sender) # "ok" THEN Revert(s, OperatorGate(s, sender))
    ELSE LET r == BridgeRevenue([s EXCEPT !.guard = ENTERED], Self, t,
                                StripeArgs(_invoiceId, _amount, _beneficiary))
         IN IF r.err # "ok" THEN RevertWith(s, r.err, r.errArgs)
            ELSE Done([r.st EXCEPT !.guard = NOT_ENTERED], r.ret, r.events, r.calls)

\* mutant: a reversal also clears the entry's settlement time
ReverseSettlement_Restamps(s, sender, t, _settlementId, _reason) ==
    LET entry == EntryAt(s, _settlementId) IN
    IF OperatorGate(s, sender) # "ok" THEN Revert(s, OperatorGate(s, sender))
    ELSE IF NotFound(entry) THEN RevertWith(s, "SettlementNotFound", <<_settlementId>>)
    ELSE IF StatusIsNot(entry, SETTLED)
    THEN RevertWith(s, "InvalidSettlementStatus", <<_settlementId, entry.status, SETTLED>>)
    ELSE LET c == CalculateAllocations(s.allocation, entry.amount)
         IN IF AddOverflows(s.totalRevenueReversed, entry.amount) \/ c.panic
            THEN Revert(s, "Panic")
            ELSE LET s1 == [s EXCEPT
                            !.settlements[_settlementId].status = REVERSED,
                            !.settlements[_settlementId].settledAt = 0,
                            !.totalRevenueReversed = @ + entry.amount]
                     b == BurnFromPartitions(s1, entry.beneficiary, c.amts)
                 IN IF ~b.ok THEN Revert(s, b.err)
                    ELSE Done(b.st, <<>>,
                              << [name |-> "SettlementStatusChanged",
                                  settlementId |-> _settlementId,
                                  oldStatus |-> entry.status, newStatus |-> REVERSED],
                                 [name |-> "RevenueReversed", settlementId |-> _settlementId,
                                  invoiceId |-> entry.invoiceId, reversedBy |-> sender,
                                  reason |-> _reason, timestamp |-> t] >>,
                              b.calls)

\* mutant: a reversal leaves the reversed total where it was
ReverseSettlement_NoTotal(s, sender, t, _settlementId, _reason) ==
    LET entry == EntryAt(s, _settlementId) IN
    IF OperatorGate(s, sender) # "ok" THEN Revert(s, OperatorGate(s, sender))
    ELSE IF NotFound(entry) THEN RevertWith(s, "SettlementNotFound", <<_settlementId>>)
    ELSE IF StatusIsNot(entry, SETTLED)
    THEN RevertWith(s, "InvalidSettlementStatus", <<_settlementId, entry.status, SETTLED>>)
    ELSE LET c == CalculateAllocations(s.allocation, entry.amount)
         IN IF AddOverflows(s.totalRevenueReversed, entry.amount) \/ c.panic
            THEN Revert(s, "Panic")
            ELSE LET s1 == [s EXCEPT
                            !.settlements[_settlementId].status = REVERSED]
                     b == BurnFromPartitions(s1, entry.beneficiary, c.amts)
                 IN IF ~b.ok THEN Revert(s, b.err)
                    ELSE Done(b.st, <<>>,
                              << [name |-> "SettlementStatusChanged",
                                  settlementId |-> _settlementId,
                                  oldStatus |-> entry.status, newStatus |-> REVERSED],
                                 [name |-> "RevenueReversed", settlementId |-> _settlementId,
                                  invoiceId |-> entry.invoiceId, reversedBy |-> sender,
                                  reason |-> _reason, timestamp |-> t] >>,
                              b.calls)

\* reverseSettlement
ReverseSettlement(s, sender, t, _settlementId, _reason) ==
    LET entry == EntryAt(s, _settlementId) IN
    IF OperatorGate(s, sender) # "ok" THEN Revert(s, OperatorGate(s, sender))
    ELSE IF NotFound(entry) THEN RevertWith(s, "SettlementNotFound", <<_settlementId>>)
    ELSE IF StatusIsNot(entry, SETTLED)
    THEN RevertWith(s, "InvalidSettlementStatus", <<_settlementId, entry.status, SETTLED>>)
    ELSE LET c == CalculateAllocations(s.allocation, entry.amount)
         IN IF AddOverflows(s.totalRevenueReversed, entry.amount) \/ c.panic
            THEN Revert(s, "Panic")
            ELSE LET s1 == [s EXCEPT
                            !.settlements[_settlementId].status = REVERSED,
                            !.totalRevenueReversed = @ + entry.amount]
                     b == BurnFromPartitions(s1, entry.beneficiary, c.amts)
                 IN IF ~b.ok THEN Revert(s, b.err)
                    ELSE Done(b.st, <<>>,
                              << [name |-> "SettlementStatusChanged",
                                  settlementId |-> _settlementId,
                                  oldStatus |-> entry.status, newStatus |-> REVERSED],
                                 [name |-> "RevenueReversed", settlementId |-> _settlementId,
                                  invoiceId |-> entry.invoiceId, reversedBy |-> sender,
                                  reason |-> _reason, timestamp |-> t] >>,
                              b.calls)

\* mutant: disputeSettlement accepts only a settlement that is SETTLED
DisputeSettlement_SettledOnly(s, sender, _settlementId) ==
    LET entry == EntryAt(s, _settlementId) IN
    IF DisputeGate(s, sender) # "ok" THEN Revert(s, DisputeGate(s, sender))
    ELSE IF NotFound(entry) THEN RevertWith(s, "SettlementNotFound", <<_settlementId>>)
    ELSE IF StatusIsNot(entry, SETTLED)
    THEN RevertWith(s, "InvalidSettlementStatus", <<_settlementId, entry.status, SETTLED>>)
    ELSE Done([s EXCEPT !.settlements[_settlementId].status = DISPUTED], <<>>,
              << [name |-> "SettlementStatusChanged", settlementId |-> _settlementId,
                  oldStatus |-> entry.status, newStatus |-> DISPUTED] >>,
              <<>>)

\* disputeSettlement
DisputeSettlement(s, sender, _settlementId) ==
    LET entry == EntryAt(s, _settlementId) IN
    IF DisputeGate(s, sender) # "ok" THEN Revert(s, DisputeGate(s, sender))
    ELSE IF NotFound(entry) THEN RevertWith(s, "SettlementNotFound", <<_settlementId>>)
    ELSE Done([s EXCEPT !.settlements[_settlementId].status = DISPUTED], <<>>,
              << [name |-> "SettlementStatusChanged", settlementId |-> _settlementId,
                  oldStatus |-> entry.status, newStatus |-> DISPUTED] >>,
              <<>>)

----------------------------------------------------------------------------
(* Admin functions *)

\* mutant: the new operator is announced but not stored
SetOperator_KeepsOld(s, sender, _newOperator) ==
    IF ~OnlyOwner(sender) THEN RevertWith(s, "OwnableUnauthorizedAccount", <<sender>>)
    ELSE IF _newOperator = ZeroAddr THEN Revert(s, "ZeroAddress")
    ELSE Done(s, <<>>,
              << [name |-> "OperatorUpdated", oldOperator |-> s.bridgeOperator,
                  newOperator |-> _newOperator] >>,
              <<>>)

\* setOperator
SetOperator(s, sender, _newOperator) ==
    IF ~OnlyOwner(sender) THEN RevertWith(s, "OwnableUnauthorizedAccount", <<sender>>)
    ELSE IF _newOperator = ZeroAddr THEN Revert(s, "ZeroAddress")
    ELSE Done([s EXCEPT !.bridgeOperator = _newOperator], <<>>,
              << [name |-> "OperatorUpdated", oldOperator |-> s.bridgeOperator,
                  newOperator |-> _newOperator] >>,
              <<>>)

\* _reserveBps + _liquidityBps + _enterpriseBps + _stakingBps, left to right in
\* checked arithmetic: panic is TRUE when an addition overflows
BpsSum(cfg) ==
    IF AddOverflows(cfg.reserveBps, cfg.liquidityBps)
    THEN [panic |-> TRUE, sum |-> 0]
    ELSE IF AddOverflows(cfg.reserveBps + cfg.liquidityBps, cfg.enterpriseBps)
    THEN [panic |-> TRUE, sum |-> 0]
    ELSE IF AddOverflows(cfg.reserveBps + cfg.liquidityBps + cfg.enterpriseBps,
                         cfg.stakingBps)
    THEN [panic |-> TRUE, sum |-> 0]
    ELSE [panic |-> FALSE,
          sum |-> cfg.reserveBps + cfg.liquidityBps + cfg.enterpriseBps + cfg.stakingBps]

\* mutant: the sum of the four weights is never checked
SetAllocation_NoSumCheck(s, sender, cfg) ==
    IF ~OnlyOwner(sender) THEN RevertWith(s, "OwnableUnauthorizedAccount", <<sender>>)
    ELSE Done([s EXCEPT !.allocation = cfg], <<>>,
              << [name |-> "AllocationUpdated", reserveBps |-> cfg.reserveBps,
                  liquidityBps |-> cfg.liquidityBps, enterpriseBps |-> cfg.enterpriseBps,
                  stakingBps |-> cfg.stakingBps] >>,
              <<>>)

\* mutant: the new weights are announced but the stored config stays
SetAllocation_KeepsOld(s, sender, cfg) ==
    IF ~OnlyOwner(sender) THEN RevertWith(s, "OwnableUnauthorizedAccount", <<sender>>)
    ELSE IF BpsSum(cfg).panic THEN Revert(s, "Panic")
    ELSE IF BpsSum(cfg).sum # BASIS_POINTS THEN Revert(s, "InvalidPercentages")
    ELSE Done(s, <<>>,
              << [name |-> "AllocationUpdated", reserveBps |-> cfg.reserveBps,
                  liquidityBps |-> cfg.liquidityBps, enterpriseBps |-> cfg.enterpriseBps,
                  stakingBps |-> cfg.stakingBps] >>,
              <<>>)

\* setAllocation
SetAllocation(s, sender, cfg) ==
    IF ~OnlyOwner(sender) THEN RevertWith(s, "OwnableUnauthorizedAccount", <<sender>>)
    ELSE IF BpsSum(cfg).panic THEN Revert(s, "Panic")
    ELSE IF BpsSum(cfg).sum # BASIS_POINTS THEN Revert(s, "InvalidPercentages")
    ELSE Done([s EXCEPT !.allocation = cfg], <<>>,
              << [name |-> "AllocationUpdated", reserveBps |-> cfg.reserveBps,
                  liquidityBps |-> cfg.liquidityBps, enterpriseBps |-> cfg.enterpriseBps,
                  stakingBps |-> cfg.stakingBps] >>,
              <<>>)

\* pause: onlyOwner, then Pausable._pause (whenNotPaused)
Pause(s, sender) ==
    IF ~OnlyOwner(sender) THEN RevertWith(s, "OwnableUnauthorizedAccount", <<sender>>)
    ELSE IF s.paused THEN Revert(s, "EnforcedPause")
    ELSE Done([s EXCEPT !.paused = TRUE], <<>>,
              << [name |-> "Paused", account |-> sender] >>, <<>>)

\* unpause: onlyOwner, then Pausable._unpause (whenPaused)
Unpause(s, sender) ==
    IF ~OnlyOwner(sender) THEN RevertWith(s, "OwnableUnauthorizedAccount", <<sender>>)
    ELSE IF ~s.paused THEN Revert(s, "ExpectedPause")
    ELSE Done([s EXCEPT !.paused = FALSE], <<>>,
              << [name |-> "Unpaused", account |-> sender] >>, <<>>)

----------------------------------------------------------------------------
(* View functions *)

GetSettlement(s, _settlementId) == Done(s, <<EntryAt(s, _settlementId)>>, <<>>, <<>>)

GetSettlementByInvoice(s, _invoiceId) ==
    Done(s, <<s.invoiceToSettlement[_invoiceId]>>, <<>>, <<>>)

IsInvoiceProcessed(s, _invoiceId) ==
    Done(s, <<s.invoiceToSettlement[_invoiceId] # NullId>>, <<>>, <<>>)

\* the external calculateAllocations
CalculateAllocationsView(s, _amount) ==
    LET c == CalculateAllocations(s.allocation, _amount)
    IN IF c.panic THEN Revert(s, "Panic") ELSE Done(s, <<c.amts>>, <<>>, <<>>)

\* mutant: reversals are not deducted
NetRevenue_Gross(s) == Done(s, <<s.totalRevenueBridged>>, <<>>, <<>>)

NetRevenue(s) ==
    IF s.totalRevenueBridged - s.totalRevenueReversed < 0 THEN Revert(s, "Panic")
    ELSE Done(s, <<s.totalRevenueBridged - s.totalRevenueReversed>>, <<>>, <<>>)

----------------------------------------------------------------------------
(* Construction *)

Token == "nbpt"

\* constructor(_nbptToken, _operator, _owner), on a fresh token store
Constructor(_nbptToken, _operator, _owner) ==
    LET s0 == [bridgeOperator |-> ZeroAddr, allocation |-> Config(0, 0, 0, 0),
               invoiceToSettlement |-> [inv \in Invoices |-> NullId],
               settlements |-> <<>>,
               totalRevenueBridged |-> 0, totalRevenueReversed |-> 0,
               settlementNonce |-> 0, paused |-> FALSE, guard |-> NOT_ENTERED,
               balances |-> [k \in Partitions \X Accounts |-> 0],
               partitionTotals |-> [q \in Partitions |-> 0]]
    IN IF _owner = ZeroAddr THEN RevertWith(s0, "OwnableInvalidOwner", <<ZeroAddr>>)
       ELSE IF _nbptToken = ZeroAddr \/ _operator = ZeroAddr THEN Revert(s0, "ZeroAddress")
       ELSE Done([s0 EXCEPT !.bridgeOperator = _operator, !.allocation = DefaultConfig],
                 <<>>,
                 << [name |-> "OperatorUpdated", oldOperator |-> ZeroAddr,
                     newOperator |-> _operator],
                    [name |-> "AllocationUpdated", reserveBps |-> 4000,
                     liquidityBps |-> 3000, enterpriseBps |-> 2000,
                     stakingBps |-> 1000] >>,
                 <<>>)

----------------------------------------------------------------------------
(* The state machine *)

\* the events of the issuance feed
IsIssuanceEvent(ev) == ev.name \in {"RevenueBridged", "PartitionIssued"}

\* the settlements the RevenueReversed events among evs are about
ReversedBy(evs) ==
    {evs[i].settlementId : i \in {j \in DOMAIN evs : evs[j].name = "RevenueReversed"}}

\* the world after a call is the one its outcome carries; its issuance events
\* join the log (a reverted call has none)
Commit(r) ==
    /\ bridgeOperator' = r.st.bridgeOperator
    /\ allocation' = r.st.allocation
    /\ invoiceToSettlement' = r.st.invoiceToSettlement
    /\ settlements' = r.st.settlements
    /\ totalRevenueBridged' = r.st.totalRevenueBridged
    /\ totalRevenueReversed' = r.st.totalRevenueReversed
    /\ settlementNonce' = r.st.settlementNonce
    /\ paused' = r.st.paused
    /\ guard' = r.st.guard
    /\ balances' = r.st.balances
    /\ partitionTotals' = r.st.partitionTotals
    /\ now' = now
    /\ issuanceLog' = issuanceLog \o SelectSeq(r.events, IsIssuanceEvent)
    /\ reversalLog' = reversalLog \cup ReversedBy(r.events)
    /\ UNCHANGED <<calcIn, calcOut>>

\* the variables hold the world s
WorldIs(s) ==
    /\ bridgeOperator = s.bridgeOperator
    /\ allocation = s.allocation
    /\ invoiceToSettlement = s.invoiceToSettlement
    /\ settlements = s.settlements
    /\ totalRevenueBridged = s.totalRevenueBridged
    /\ totalRevenueReversed = s.totalRevenueReversed
    /\ settlementNonce = s.settlementNonce
    /\ paused = s.paused
    /\ guard = s.guard
    /\ balances = s.balances
    /\ partitionTotals = s.partitionTotals

\* the contract as constructed, at the first block
Deployed ==
    /\ WorldIs(Constructor(Token, Operator, Owner).st)
    /\ now = 1
    /\ issuanceLog = <<>>
    /\ reversalLog = {}

Init == Deployed /\ calcIn = 0 /\ calcOut = <<>>

\* the arguments the operator process passes to bridgeRevenue
BridgeArgs(_invoiceId, _amount, _beneficiary) ==
    [invoiceId |-> _invoiceId, amount |-> _amount, payer |-> Payer,
     beneficiary |-> _beneficiary, currency |-> ZeroAddr,
     sourceSystem |-> SOURCE_MERCURY, destinationSystem |-> DEST_OPERATIONS]

\* settlement ids a caller can name: every id ever returned, and an unknown one
KnownIds == DOMAIN settlements \cup {FakeId}

CallBridgeRevenue ==
    \E sender \in Callers, inv \in Invoices, amt \in Amounts,
       ben \in Accounts \cup {ZeroAddr} :
        Commit(BridgeRevenue(World, sender, now, BridgeArgs(inv, amt, ben)))

CallBridgeStripeRevenue ==
    \E sender \in Callers, inv \in Invoices, amt \in StripeAmounts,
       ben \in Accounts \cup {ZeroAddr} :
        Commit(BridgeStripeRevenue(World, sender, now, inv, amt, ben))

CallReverseSettlement ==
    \E sender \in Callers, id \in KnownIds :
        Commit(ReverseSettlement(World, sender, now, id, "REFUND"))

CallDisputeSettlement ==
    \E sender \in Callers, id \in KnownIds :
        Commit(DisputeSettlement(World, sender, id))

CallSetOperator ==
    \E sender \in Callers, new \in OperatorInputs :
        Commit(SetOperator(World, sender, new))

CallSetAllocation ==
    \E sender \in Callers, cfg \in ConfigInputs :
        Commit(SetAllocation(World, sender, cfg))

CallPause == \E sender \in Callers : Commit(Pause(World, sender))

CallUnpause == \E sender \in Callers : Commit(Unpause(World, sender))

\* the view functions change nothing, whatever they answer
CallGetSettlement == \E id \in KnownIds : Commit(GetSettlement(World, id))

CallGetSettlementByInvoice ==
    \E inv \in Invoices : Commit(GetSettlementByInvoice(World, inv))

CallIsInvoiceProcessed ==
    \E inv \in Invoices : Commit(IsInvoiceProcessed(World, inv))

CallCalculateAllocations ==
    \E amt \in Amounts : Commit(CalculateAllocationsView(World, amt))

CallNetRevenue == Commit(NetRevenue(World))

\* a later block: block.timestamp grows
AdvanceTime ==
    /\ now < MaxTime
    /\ now' = now + 1
    /\ UNCHANGED <<bridgeOperator, allocation, invoiceToSettlement, settlements,
                   totalRevenueBridged, totalRevenueReversed, settlementNonce,
                   paused, guard, balances, partitionTotals, issuanceLog,
                   reversalLog, calcIn, calcOut>>

Next ==
    \/ CallBridgeRevenue
    \/ CallBridgeStripeRevenue
    \/ CallReverseSettlement
    \/ CallDisputeSettlement
    \/ CallSetOperator
    \/ CallSetAllocation
    \/ CallPause
    \/ CallUnpause
    \/ CallGetSettlement
    \/ CallGetSettlementByInvoice
    \/ CallIsInvoiceProcessed
    \/ CallCalculateAllocations
    \/ CallNetRevenue
    \/ AdvanceTime

Spec == Init /\ [][Next]_vars

----------------------------------------------------------------------------
(* The allocation calculator on its own: any valid config, a range of      *)
(* amounts, one calculateAllocations call                                  *)

\* largest amount of the dense range the calculator is asked about
MaxCalcAmount == 12

CalcWeights == {0, 1, 1000, 2000, 2500, 3000, 3333, 4000, 9999, 10000}
\* configs setAllocation accepts
CalcConfigs ==
    {Config(r, l, e, BASIS_POINTS - r - l - e) :
        <<r, l, e>> \in {w \in CalcWeights \X CalcWeights \X CalcWeights :
                            w[1] + w[2] + w[3] <= BASIS_POINTS}}
CalcAmounts ==
    (0 .. MaxCalcAmount) \cup {99, 5000, 10000}
        \cup {UintMax \div BASIS_POINTS, UintMax \div BASIS_POINTS + 1, UintMax}

\* constructed, then configured by the owner
InitCalc ==
    /\ \E cfg \in CalcConfigs :
           LET r == SetAllocation(Constructor(Token, Operator, Owner).st, owner, cfg)
           IN r.err = "ok" /\ WorldIs(r.st)
    /\ now = 1
    /\ issuanceLog = <<>>
    /\ reversalLog = {}
    /\ calcIn \in CalcAmounts
    /\ calcOut = <<>>

CalcApply ==
    /\ calcOut = <<>>
    /\ calcOut' = LET r == CalculateAllocationsView(World, calcIn)
                  IN << [err |-> r.err, ret |-> r.ret] >>
    /\ UNCHANGED <<bridgeOperator, allocation, invoiceToSettlement, settlements,
                   totalRevenueBridged, totalRevenueReversed, settlementNonce,
                   paused, guard, balances, partitionTotals, now, issuanceLog,
                   reversalLog, calcIn>>

NextCalc == CalcApply

SpecCalc == InitCalc /\ [][NextCalc]_vars

----------------------------------------------------------------------------
(* Vocabulary of the properties *)

\* the identities the bridge lets through onlyOperator in this state
Authorized(sender) == sender = bridgeOperator \/ sender = Owner

\* the calls bridgeRevenue is probed with in every reachable state
ProbeBridgeArgs ==
    {BridgeArgs(inv, amt, ben) :
        inv \in Invoices, amt \in ProbeAmounts, ben \in Accounts \cup {ZeroAddr}}

\* the calls of bridgeRevenue the operator process makes (CallBridgeRevenue)
CallBridgeArgs ==
    {BridgeArgs(inv, amt, ben) :
        inv \in Invoices, amt \in Amounts, ben \in Accounts \cup {ZeroAddr}}

\* some successful bridgeRevenue stored an entry for this invoice
InvoiceBridged(inv) == \E id \in DOMAIN settlements : settlements[id].invoiceId = inv

\* the amount is within what checked arithmetic carries through a bridging
InRange(amt) ==
    /\ amt <= UintMax \div BASIS_POINTS
    /\ totalRevenueBridged + amt <= UintMax

\* the four balances of an account in world s, as a split
BalancesOf(s, account) ==
    Split(s.balances[<<PARTITION_RESERVE, account>>],
          s.balances[<<PARTITION_LIQUIDITY, account>>],
          s.balances[<<PARTITION_ENTERPRISE, account>>],
          s.balances[<<PARTITION_STAKING, account>>])

SplitSum(x) == x.reserveAmt + x.liquidityAmt + x.enterpriseAmt + x.stakingAmt

SplitPlus(x, y) ==
    Split(x.reserveAmt + y.reserveAmt, x.liquidityAmt + y.liquidityAmt,
          x.enterpriseAmt + y.enterpriseAmt, x.stakingAmt + y.stakingAmt)

\* q is floor(n / d)
IsFloor(q, n, d) == q * d <= n /\ n < (q + 1) * d

----------------------------------------------------------------------------
(* C1: once a bridgeRevenue call has succeeded for an invoice id, every    *)
(* later otherwise-valid bridgeRevenue call with that invoice id (operator *)
(* or owner, any amount, beneficiary) fails with InvoiceAlreadyProcessed   *)
(* and leaves the totals, the settlements and the balances unchanged; at   *)
(* most one settlement exists per invoice id.                              *)
C1_Idempotent ==
    /\ \A sender \in Callers, a \in ProbeBridgeArgs :
          (/\ Authorized(sender) /\ ~paused
           /\ a.amount > 0 /\ a.beneficiary # ZeroAddr
           /\ InvoiceBridged(a.invoiceId))
          => LET r == BridgeRevenue(World, sender, now, a)
             IN /\ r.err = "InvoiceAlreadyProcessed"
                /\ r.errArgs = <<a.invoiceId>>
                /\ r.st = World
                /\ r.events = <<>> /\ r.calls = <<>>
    /\ \A i, j \in DOMAIN settlements :
          settlements[i].invoiceId = settlements[j].invoiceId => i = j

\* the settlement of inv_1 was reversed, the operator was rotated, and a
\* repeat of inv_1 by the owner with another amount and beneficiary is refused
C1_Witness ==
    /\ \E id \in DOMAIN settlements :
          /\ settlements[id].invoiceId = "inv_1"
          /\ settlements[id].status = REVERSED
          /\ settlements[id].beneficiary = Treasury
    /\ bridgeOperator = Outsider
    /\ ~paused
    /\ BridgeRevenue(World, Owner, now, BridgeArgs("inv_1", 99, Vault)).err
           = "InvoiceAlreadyProcessed"

----------------------------------------------------------------------------
(* C2, as amended: for every amount whose products with the reserve,       *)
(* liquidity and enterprise weights fit the unsigned word, and every       *)
(* config summing to 10000, calculateAllocations returns                   *)
(* reserve = floor(amount*reserveBps/10000), liquidity and enterprise      *)
(* likewise, staking = amount - reserve - liquidity - enterprise, all four *)
(* non-negative and summing to amount (99 under 4000/3000/2000/1000 gives  *)
(* 39/29/19/12; 0 gives zeros).  For a larger amount the call reverts.     *)
CalcFits ==
    /\ ~MulOverflows(calcIn, allocation.reserveBps)
    /\ ~MulOverflows(calcIn, allocation.liquidityBps)
    /\ ~MulOverflows(calcIn, allocation.enterpriseBps)

C2_Returns ==
    /\ calcOut[1].err = "ok"
    /\ LET x == calcOut[1].ret[1] IN
          /\ IsFloor(x.reserveAmt, calcIn * allocation.reserveBps, 10000)
          /\ IsFloor(x.liquidityAmt, calcIn * allocation.liquidityBps, 10000)
          /\ IsFloor(x.enterpriseAmt, calcIn * allocation.enterpriseBps, 10000)
          /\ x.stakingAmt = calcIn - x.reserveAmt - x.liquidityAmt - x.enterpriseAmt
          /\ x.reserveAmt >= 0 /\ x.liquidityAmt >= 0
          /\ x.enterpriseAmt >= 0 /\ x.stakingAmt >= 0
          /\ SplitSum(x) = calcIn
          /\ (calcIn = 99 /\ allocation = DefaultConfig) => x = Split(39, 29, 19, 12)
          /\ calcIn = 0 => x = Split(0, 0, 0, 0)

C2_NoDustInRange ==
    calcOut # <<>> =>
        IF CalcFits THEN C2_Returns ELSE calcOut[1].err = "Panic"

C2_Witness ==
    /\ calcIn = 99 /\ allocation = DefaultConfig
    /\ calcOut = << [err |-> "ok", ret |-> <<Split(39, 29, 19, 12)>>] >>

\* C2 as stated: for every amount >= 0 the four amounts are returned
C2_Original == calcOut # <<>> => C2_Returns

----------------------------------------------------------------------------
\* what a successful bridgeRevenue adds to the balances is the calculated split
C3_IssuesCalculatedSplit_Here ==
    \A sender \in Callers, a \in ProbeBridgeArgs :
        LET r == BridgeRevenue(World, sender, now, a)
            c == CalculateAllocations(allocation, a.amount)
        IN r.err = "ok" =>
              /\ ~c.panic
              /\ BalancesOf(r.st, a.beneficiary)
                     = SplitPlus(BalancesOf(World, a.beneficiary), c.amts)
              /\ SplitSum(BalancesOf(r.st, a.beneficiary))
                     - SplitSum(BalancesOf(World, a.beneficiary))
                     = r.st.settlements[r.ret[1]].amount
              /\ \A other \in Accounts \ {a.beneficiary} :
                    BalancesOf(r.st, other) = BalancesOf(World, other)

(* C3: every successful bridgeRevenue increases the beneficiary's four     *)
(* partition balances by exactly the four amounts the allocation           *)
(* calculator gives for the amount under the config current at the call,  *)
(* so the total issued equals the stored entry's amount.                   *)
C3_IssuesCalculatedSplit == []C3_IssuesCalculatedSplit_Here

\* a bridging of 3 under the default config has happened, and from here a
\* bridging of 99 succeeds
C3_Witness ==
    /\ \E id \in DOMAIN settlements :
          /\ settlements[id].amount = 3 /\ settlements[id].beneficiary = Treasury
    /\ Cardinality(DOMAIN settlements) = 1
    /\ allocation = DefaultConfig
    /\ BalancesOf(World, Treasury) = Split(1, 0, 0, 2)
    /\ BridgeRevenue(World, Operator, now, BridgeArgs("inv_2", 99, Treasury)).err = "ok"

----------------------------------------------------------------------------
\* what the issuance feed says was issued for a settlement into a partition
RECURSIVE IssuedIn(_, _, _)
IssuedIn(log, id, partition) ==
    IF log = <<>> THEN 0
    ELSE LET ev == Head(log)
         IN (IF /\ ev.name = "PartitionIssued"
                /\ ev.settlementId = id
                /\ ev.partition = partition
             THEN ev.amount ELSE 0)
            + IssuedIn(Tail(log), id, partition)

(* C4: a successful reverseSettlement burns from each of the beneficiary's *)
(* four partitions exactly the amount that was issued into it when the     *)
(* settlement was bridged, also when setAllocation was called in between.  *)
C4_ReversalBurnsIssued ==
    [][\A id \in DOMAIN settlements :
          (settlements[id].status = SETTLED /\ settlements'[id].status = REVERSED)
          => \A p \in Partitions :
                balances[<<p, settlements[id].beneficiary>>]
                    - balances'[<<p, settlements[id].beneficiary>>]
                = IssuedIn(issuanceLog, id, p)]_vars

----------------------------------------------------------------------------
(* C5: a successful bridgeRevenue followed by a successful                 *)
(* reverseSettlement of the settlement it returned (no setAllocation in    *)
(* between, only the passing of time) restores all four partition balances of the        *)
(* beneficiary to their pre-bridge values, sets the entry's status to      *)
(* REVERSED, increases totalRevenueReversed by exactly the entry's amount  *)
(* and leaves netRevenue at its pre-bridge value.                          *)
C5_RoundTrip ==
    \A s1 \in Callers, a \in ProbeBridgeArgs :
        LET r1 == BridgeRevenue(World, s1, now, a)
        IN r1.err = "ok" =>
             \A s2 \in Callers, t2 \in now .. MaxTime :
                 LET id == r1.ret[1]
                     r2 == ReverseSettlement(r1.st, s2, t2, id, "REFUND")
                 IN r2.err = "ok" =>
                      /\ BalancesOf(r2.st, a.beneficiary) = BalancesOf(World, a.beneficiary)
                      /\ r2.st.balances = balances
                      /\ r2.st.settlements[id].status = REVERSED
                      /\ r2.st.totalRevenueReversed
                             = totalRevenueReversed + r1.st.settlements[id].amount
                      /\ NetRevenue(World).err = "ok" /\ NetRevenue(r2.st).err = "ok"
                      /\ NetRevenue(r2.st).ret = NetRevenue(World).ret

\* one bridging and its reversal have happened, and from here a bridging of
\* 99 and its reversal both succeed
C5_Witness ==
    /\ Cardinality(DOMAIN settlements) = 1
    /\ \A id \in DOMAIN settlements : settlements[id].status = REVERSED
    /\ totalRevenueBridged = 3 /\ totalRevenueReversed = 3
    /\ \A k \in DOMAIN balances : balances[k] = 0
    /\ LET r1 == BridgeRevenue(World, Operator, now, BridgeArgs("inv_2", 99, Treasury))
       IN /\ r1.err = "ok"
          /\ ReverseSettlement(r1.st, Owner, now, r1.ret[1], "REFUND").err = "ok"

----------------------------------------------------------------------------
(* C6: each settlement's status only ever changes SETTLED -> REVERSED or   *)
(* SETTLED -> DISPUTED; a REVERSED settlement never changes status again;  *)
(* no settlement reaches REVERSED or DISPUTED without having been SETTLED. *)
C6_StatusMachine ==
    [][/\ \A id \in DOMAIN settlements :
             /\ id \in DOMAIN settlements'
             /\ settlements'[id].status # settlements[id].status
                => /\ settlements[id].status = SETTLED
                   /\ settlements'[id].status \in {REVERSED, DISPUTED}
       /\ \A id \in DOMAIN settlements' \ DOMAIN settlements :
             settlements'[id].status = SETTLED]_vars

----------------------------------------------------------------------------
(* C7: reverseSettlement on an existing settlement whose status is not     *)
(* SETTLED fails and changes no balance, total or status; called by the    *)
(* operator or owner while not paused the error is                         *)
(* InvalidSettlementStatus(settlementId, current status, SETTLED).  So     *)
(* each settlement's amount is added to totalRevenueReversed at most once: *)
(* the total moves only when one settlement leaves SETTLED for REVERSED,   *)
(* by that settlement's amount, and no settlement returns to SETTLED.      *)
C7_Rejected ==
    \A sender \in Callers, id \in DOMAIN settlements :
        settlements[id].status # SETTLED =>
            LET r == ReverseSettlement(World, sender, now, id, "REFUND")
            IN /\ r.err # "ok"
               /\ r.st = World
               /\ r.calls = <<>> /\ r.events = <<>>
               /\ (Authorized(sender) /\ ~paused)
                  => /\ r.err = "InvalidSettlementStatus"
                     /\ r.errArgs = <<id, settlements[id].status, SETTLED>>

C7_AddedOnce ==
    /\ \A id \in DOMAIN settlements :
          settlements[id].status # SETTLED
          => id \in DOMAIN settlements' /\ settlements'[id].status # SETTLED
    /\ totalRevenueReversed' # totalRevenueReversed
       => \E id \in DOMAIN settlements :
             /\ settlements[id].status = SETTLED
             /\ settlements'[id].status = REVERSED
             /\ totalRevenueReversed' = totalRevenueReversed + settlements[id].amount
             /\ \A other \in DOMAIN settlements \ {id} :
                   settlements'[other] = settlements[other]

C7_DoubleReversalRejected == []C7_Rejected /\ [][C7_AddedOnce]_vars

\* a settlement has been reversed, another disputed, and the operator's
\* second reversal of the first is refused
C7_Witness ==
    /\ ~paused
    /\ \E id \in DOMAIN settlements : settlements[id].status = DISPUTED
    /\ \E id \in DOMAIN settlements :
          /\ settlements[id].status = REVERSED
          /\ totalRevenueReversed = settlements[id].amount
          /\ ReverseSettlement(World, bridgeOperator, now, id, "REFUND").err
                 = "InvalidSettlementStatus"

----------------------------------------------------------------------------
(* C8: bridgeRevenue, bridgeStripeRevenue, reverseSettlement and           *)
(* disputeSettlement called by an identity that is neither the current     *)
(* operator nor the owner fail with Unauthorized and change no state; the  *)
(* same call by the operator or the owner succeeds when its other          *)
(* preconditions hold.                                                     *)
C8_Authorization ==
    \A sender \in Callers :
        /\ \A a \in ProbeBridgeArgs :
              LET r == BridgeRevenue(World, sender, now, a)
                  q == BridgeStripeRevenue(World, sender, now,
                                           a.invoiceId, a.amount, a.beneficiary)
                  valid == /\ ~paused /\ a.amount > 0 /\ InRange(a.amount)
                           /\ a.beneficiary # ZeroAddr /\ ~InvoiceBridged(a.invoiceId)
              IN /\ ~Authorized(sender)
                    => /\ r.err = "Unauthorized" /\ r.st = World
                       /\ q.err = "Unauthorized" /\ q.st = World
                 /\ (Authorized(sender) /\ valid) => (r.err = "ok" /\ q.err = "ok")
        /\ \A id \in KnownIds :
              LET r == ReverseSettlement(World, sender, now, id, "REFUND")
                  d == DisputeSettlement(World, sender, id)
              IN /\ ~Authorized(sender)
                    => /\ r.err = "Unauthorized" /\ r.st = World
                       /\ d.err = "Unauthorized" /\ d.st = World
                 /\ (Authorized(sender) /\ id \in DOMAIN settlements) => d.err = "ok"
                 /\ (/\ Authorized(sender) /\ ~paused /\ id \in DOMAIN settlements
                     /\ settlements[id].status = SETTLED)
                    => r.err = "ok"

----------------------------------------------------------------------------
(* C9: while paused, every bridgeRevenue and reverseSettlement call fails  *)
(* and changes no state, with the paused error when the caller is the      *)
(* operator or the owner; the read-only queries still answer; after        *)
(* unpause() an otherwise-valid bridgeRevenue succeeds and reverseSettlement *)
(* is no longer refused for the pause.                                     *)
C9_PauseGating ==
    paused =>
      /\ \A sender \in Callers, a \in ProbeBridgeArgs :
            LET r == BridgeRevenue(World, sender, now, a)
            IN /\ r.err # "ok" /\ r.st = World /\ r.events = <<>>
               /\ Authorized(sender) => r.err = "EnforcedPause"
      /\ \A sender \in Callers, id \in KnownIds :
            LET r == ReverseSettlement(World, sender, now, id, "REFUND")
            IN /\ r.err # "ok" /\ r.st = World /\ r.events = <<>>
               /\ Authorized(sender) => r.err = "EnforcedPause"
      /\ \A id \in KnownIds : GetSettlement(World, id).err = "ok"
      /\ \A inv \in Invoices :
            /\ GetSettlementByInvoice(World, inv).err = "ok"
            /\ IsInvoiceProcessed(World, inv).err = "ok"
      /\ NetRevenue(World).err = "ok"
      /\ NetRevenue(World).ret = <<totalRevenueBridged - totalRevenueReversed>>
      /\ \A amt \in ProbeAmounts :
            amt <= UintMax \div BASIS_POINTS => CalculateAllocationsView(World, amt).err = "ok"
      /\ LET u == Unpause(World, Owner)
         IN /\ u.err = "ok"
            /\ \A sender \in Callers, a \in ProbeBridgeArgs :
                  (/\ Authorized(sender) /\ a.amount > 0 /\ InRange(a.amount)
                   /\ a.beneficiary # ZeroAddr /\ ~InvoiceBridged(a.invoiceId))
                  => BridgeRevenue(u.st, sender, now, a).err = "ok"
            /\ \A sender \in Callers, id \in KnownIds :
                  Authorized(sender)
                  => ReverseSettlement(u.st, sender, now, id, "REFUND").err # "EnforcedPause"

\* paused with one settlement still SETTLED and one invoice not yet bridged
C9_Witness ==
    /\ paused
    /\ \E id \in DOMAIN settlements : settlements[id].status = SETTLED
    /\ \E inv \in Invoices : ~InvoiceBridged(inv)
    /\ BridgeRevenue(World, Operator, now, BridgeArgs("inv_2", 3, Treasury)).err
           = "EnforcedPause"

----------------------------------------------------------------------------
(* C10: while the system is paused, every state-mutating operator action   *)
(* called by the operator or owner fails with the paused error; in         *)
(* particular disputeSettlement fails and leaves the status unchanged.     *)
C10_PausedBlocksOperatorActions ==
    paused =>
      \A sender \in Callers :
        Authorized(sender) =>
          /\ \A a \in ProbeBridgeArgs :
                /\ BridgeRevenue(World, sender, now, a).err = "EnforcedPause"
                /\ BridgeStripeRevenue(World, sender, now, a.invoiceId, a.amount,
                                       a.beneficiary).err = "EnforcedPause"
          /\ \A id \in DOMAIN settlements :
                /\ ReverseSettlement(World, sender, now, id, "REFUND").err = "EnforcedPause"
                /\ LET d == DisputeSettlement(World, sender, id)
                   IN d.err = "EnforcedPause" /\ d.st = World

----------------------------------------------------------------------------
(* C11: bridgeStripeRevenue(invoiceId, amount, beneficiary), called by the *)
(* operator or the owner while not paused with amount > 0, a non-null      *)
(* beneficiary and an unprocessed invoice, succeeds and has exactly the    *)
(* effect and result of bridgeRevenue(invoiceId, amount, null payer,       *)
(* beneficiary, null currency, SOURCE_STRIPE, DEST_DAO_TREASURY): one      *)
(* SETTLED entry with payer null and sourceSystem STRIPE, tokens issued,   *)
(* totals updated.                                                         *)
C11_StripeIsBridgeWithDefaults ==
    \A sender \in Callers, inv \in Invoices, amt \in ProbeAmounts, ben \in Accounts :
        (/\ Authorized(sender) /\ ~paused
         /\ amt > 0 /\ InRange(amt) /\ ~InvoiceBridged(inv))
        => LET q == BridgeStripeRevenue(World, sender, now, inv, amt, ben)
               r == BridgeRevenue(World, sender, now, StripeArgs(inv, amt, ben))
           IN /\ r.err = "ok"
              /\ q.err = "ok"
              /\ q.st = r.st /\ q.ret = r.ret /\ q.events = r.events
              /\ LET e == q.st.settlements[q.ret[1]]
                 IN /\ e.status = SETTLED /\ e.payer = ZeroAddr
                    /\ e.sourceSystem = SOURCE_STRIPE
                    /\ e.destinationSystem = DEST_DAO_TREASURY
                    /\ q.st.totalRevenueBridged = totalRevenueBridged + amt

----------------------------------------------------------------------------
\* configs setAllocation is probed with in every reachable state
ConfigProbes ==
    ConfigInputs \cup
    {Config(10000, 0, 0, 0), Config(0, 0, 0, 10000), Config(1, 2, 3, 9994),
     Config(0, 0, 0, 0), Config(0, 0, 0, 9999), Config(0, 0, 0, 10001),
     Config(4000, 3000, 2000, UintMax), Config(UintMax, UintMax, UintMax, UintMax)}

\* the four weights add up to 10000 (and to no more than the word holds)
SumsTo10000(cfg) == ~BpsSum(cfg).panic /\ BpsSum(cfg).sum = BASIS_POINTS

(* C12, as amended: in every reachable state the four stored weights sum   *)
(* to 10000; setAllocation by the owner with four values whose sum fits    *)
(* the unsigned word and is not 10000 fails with InvalidPercentages, with  *)
(* four values whose sum overflows the word it fails with an arithmetic    *)
(* panic, and in both cases the stored config is unchanged; with values    *)
(* summing to 10000 it stores exactly those four values.                   *)
C12_AllocationSum_Here ==
    /\ SumsTo10000(allocation)
    /\ \A cfg \in ConfigProbes :
          LET r == SetAllocation(World, Owner, cfg)
          IN /\ SumsTo10000(cfg)
                => /\ r.err = "ok"
                   /\ r.st.allocation = cfg
                   /\ r.st = [World EXCEPT !.allocation = cfg]
             /\ (~BpsSum(cfg).panic /\ BpsSum(cfg).sum # BASIS_POINTS)
                => (r.err = "InvalidPercentages" /\ r.st = World /\ r.events = <<>>)
             /\ BpsSum(cfg).panic
                => (r.err = "Panic" /\ r.st = World /\ r.events = <<>>)

(* C12, as amended: at all times the stored weights sum to 10000, and     *)
(* setAllocation by the owner stores exactly the four values when they sum *)
(* to 10000, fails with InvalidPercentages when their sum fits the word    *)
(* and is not 10000, fails with an arithmetic panic when it overflows, and *)
(* leaves the stored config unchanged whenever it fails.                   *)
C12_AllocationSum == []C12_AllocationSum_Here

\* the owner has replaced the default config, tokens were issued under the
\* new one, and the invalid and the overflowing config are both refused
C12_Witness ==
    /\ allocation = Config(2500, 2500, 2500, 2500)
    /\ \E id \in DOMAIN settlements :
          balances[<<PARTITION_STAKING, settlements[id].beneficiary>>] = 3
    /\ SetAllocation(World, Owner, Config(5000, 3000, 2000, 1000)).err = "InvalidPercentages"
    /\ SetAllocation(World, Owner, Config(UintMax, 1, 0, 0)).err = "Panic"

\* C12 as stated: every four values that do not sum to 10000 are refused
\* with InvalidPercentages
C12_Original ==
    /\ SumsTo10000(allocation)
    /\ \A cfg \in ConfigProbes :
          LET r == SetAllocation(World, Owner, cfg)
          IN IF SumsTo10000(cfg)
             THEN r.err = "ok" /\ r.st.allocation = cfg
             ELSE r.err = "InvalidPercentages" /\ r.st.allocation = allocation

----------------------------------------------------------------------------
\* netRevenue() answers totalRevenueBridged - totalRevenueReversed; from an
\* empty ledger, bridging 10000 and 5000 and reversing the second gives
\* 15000 / 5000 / 10000
C13_NetRevenue ==
    /\ totalRevenueReversed <= totalRevenueBridged
    /\ NetRevenue(World).err = "ok"
    /\ NetRevenue(World).ret = <<totalRevenueBridged - totalRevenueReversed>>
    /\ (settlements = <<>> /\ ~paused)
       => LET r1 == BridgeRevenue(World, bridgeOperator, now,
                                  BridgeArgs("inv_1", 10000, Treasury))
              r2 == BridgeRevenue(r1.st, bridgeOperator, now,
                                  BridgeArgs("inv_2", 5000, Treasury))
              r3 == ReverseSettlement(r2.st, bridgeOperator, now, r2.ret[1], "REFUND")
          IN /\ r1.err = "ok" /\ r2.err = "ok" /\ r3.err = "ok"
             /\ r3.st.totalRevenueBridged = 15000
             /\ r3.st.totalRevenueReversed = 5000
             /\ NetRevenue(r3.st).ret = <<10000>>

\* a step never lowers a total; it changes totalRevenueBridged only as a
\* successful bridgeRevenue, by that call's amount, and totalRevenueReversed
\* only as a successful reverseSettlement, by the reversed entry's amount
C13_Step ==
    /\ totalRevenueBridged' >= totalRevenueBridged
    /\ totalRevenueReversed' >= totalRevenueReversed
    /\ totalRevenueBridged' # totalRevenueBridged
       => \E sender \in Callers, inv \in Invoices, amt \in Amounts, ben \in Accounts :
             LET r == BridgeRevenue(World, sender, now, BridgeArgs(inv, amt, ben))
             IN /\ r.err = "ok"
                /\ totalRevenueBridged' = totalRevenueBridged + amt
                /\ settlements' = r.st.settlements
                /\ balances' = r.st.balances
                /\ totalRevenueReversed' = totalRevenueReversed
    /\ totalRevenueReversed' # totalRevenueReversed
       => \E sender \in Callers, id \in DOMAIN settlements :
             LET r == ReverseSettlement(World, sender, now, id, "REFUND")
             IN /\ r.err = "ok"
                /\ totalRevenueReversed' = totalRevenueReversed + settlements[id].amount
                /\ settlements' = r.st.settlements
                /\ balances' = r.st.balances
                /\ totalRevenueBridged' = totalRevenueBridged

(* C13: totalRevenueBridged never decreases and changes only in a          *)
(* successful bridgeRevenue, by exactly that call's amount;                *)
(* totalRevenueReversed never decreases and changes only in a successful   *)
(* reverseSettlement, by exactly the reversed entry's amount; netRevenue() *)
(* always returns totalRevenueBridged - totalRevenueReversed.              *)
C13_RunningTotals == []C13_NetRevenue /\ [][C13_Step]_vars

\* two bridgings of 3 and one reversal: 6 / 3 / 3
C13_Witness ==
    /\ totalRevenueBridged = 6
    /\ totalRevenueReversed = 3
    /\ NetRevenue(World).ret = <<3>>
    /\ \E id \in DOMAIN settlements : settlements[id].status = REVERSED
    /\ \E id \in DOMAIN settlements : settlements[id].status = SETTLED

----------------------------------------------------------------------------
IsRevenueBridged(ev) == ev.name = "RevenueBridged"

\* the RevenueBridged events of a sequence of events
BridgedEvents(evs) == SelectSeq(evs, IsRevenueBridged)

\* the event carries the arguments a and the settlement id
Carries(ev, a, id) ==
    /\ ev.invoiceId = a.invoiceId /\ ev.payer = a.payer
    /\ ev.beneficiary = a.beneficiary /\ ev.amount = a.amount
    /\ ev.currency = a.currency /\ ev.sourceSystem = a.sourceSystem
    /\ ev.destinationSystem = a.destinationSystem /\ ev.settlementId = id

(* C14: RevenueBridged is appended to the event stream exactly once per    *)
(* successful bridgeRevenue call, carrying that call's invoiceId, payer,   *)
(* beneficiary, amount, currency, sourceSystem, destinationSystem and the  *)
(* returned settlementId, and is never emitted by a call that fails (or by *)
(* a reversal or a dispute); so the number of RevenueBridged events equals *)
(* the number of stored settlements, one per settlement.                   *)
C14_RevenueBridgedOnce_Here ==
    /\ Len(BridgedEvents(issuanceLog)) = Cardinality(DOMAIN settlements)
    /\ \A id \in DOMAIN settlements :
          \E i \in DOMAIN issuanceLog :
             /\ IsRevenueBridged(issuanceLog[i])
             /\ Carries(issuanceLog[i], settlements[id], id)
             /\ \A j \in DOMAIN issuanceLog :
                   (IsRevenueBridged(issuanceLog[j]) /\ issuanceLog[j].settlementId = id)
                   => j = i
    /\ \A sender \in Callers, a \in ProbeBridgeArgs :
          LET r == BridgeRevenue(World, sender, now, a)
          IN IF r.err = "ok"
             THEN /\ Len(BridgedEvents(r.events)) = 1
                  /\ Carries(BridgedEvents(r.events)[1], a, r.ret[1])
                  /\ BridgedEvents(r.events)[1].timestamp = now
                  /\ r.events[Len(r.events)] = BridgedEvents(r.events)[1]
             ELSE r.events = <<>>
    /\ \A sender \in Callers, id \in KnownIds :
          /\ BridgedEvents(ReverseSettlement(World, sender, now, id, "REFUND").events) = <<>>
          /\ BridgedEvents(DisputeSettlement(World, sender, id).events) = <<>>

(* C14: at all times RevenueBridged has been emitted exactly once per      *)
(* successful bridgeRevenue call, carrying that call's arguments and the   *)
(* returned settlementId, and never by a failing call: the stream holds as *)
(* many RevenueBridged events as there are stored settlements.             *)
C14_RevenueBridgedOnce == []C14_RevenueBridgedOnce_Here

\* two bridgings, one of them since reversed, after failed attempts: two
\* RevenueBridged events on the stream
C14_Witness ==
    /\ Cardinality(DOMAIN settlements) = 2
    /\ Len(BridgedEvents(issuanceLog)) = 2
    /\ \E id \in DOMAIN settlements : settlements[id].status = REVERSED
    /\ BridgedEvents(issuanceLog)[1].invoiceId # BridgedEvents(issuanceLog)[2].invoiceId

----------------------------------------------------------------------------
\* a failed outcome carries the world it started from, no event and no token call
NothingPersists(r) ==
    r.err # "ok" => (r.st = World /\ r.events = <<>> /\ r.calls = <<>>)

(* C15: every public operation that fails with a named error leaves the    *)
(* whole state unchanged: stored settlements, invoice index, both totals,  *)
(* the settlement nonce, allocation config, operator, pause flag,          *)
(* partition balances and the event stream.                                *)
C15_FailureChangesNothing_Here ==
    /\ \A sender \in Callers :
          /\ \A a \in CallBridgeArgs :
                /\ NothingPersists(BridgeRevenue(World, sender, now, a))
                /\ NothingPersists(BridgeStripeRevenue(World, sender, now, a.invoiceId,
                                                       a.amount, a.beneficiary))
          /\ \A id \in KnownIds :
                /\ NothingPersists(ReverseSettlement(World, sender, now, id, "REFUND"))
                /\ NothingPersists(DisputeSettlement(World, sender, id))
          /\ \A new \in OperatorInputs : NothingPersists(SetOperator(World, sender, new))
          /\ \A cfg \in ConfigInputs : NothingPersists(SetAllocation(World, sender, cfg))
          /\ NothingPersists(Pause(World, sender))
          /\ NothingPersists(Unpause(World, sender))
    /\ \A e \in {"Unauthorized", "ZeroAmount", "ZeroAddress"} :
          paused \/ \E sender \in Callers, a \in CallBridgeArgs :
                       BridgeRevenue(World, sender, now, a).err = e
    /\ paused => \E sender \in Callers, a \in CallBridgeArgs :
                    BridgeRevenue(World, sender, now, a).err = "EnforcedPause"

(* C15: at all times, every public operation that fails with a named      *)
(* error leaves settlements, invoice index, totals, nonce, allocation,     *)
(* operator, pause flag, partition balances and event stream unchanged.    *)
C15_FailureChangesNothing == []C15_FailureChangesNothing_Here

\* tokens are out, one settlement was reversed, and calls that fail with
\* each named error are at hand
C15_Witness ==
    /\ ~paused /\ bridgeOperator = Operator
    /\ \E k \in DOMAIN balances : balances[k] > 0
    /\ \E id \in DOMAIN settlements :
          ReverseSettlement(World, Operator, now, id, "REFUND").err = "InvalidSettlementStatus"
    /\ ReverseSettlement(World, Operator, now, FakeId, "REFUND").err = "SettlementNotFound"
    /\ DisputeSettlement(World, Outsider, FakeId).err = "Unauthorized"
    /\ BridgeRevenue(World, Operator, now, BridgeArgs("inv_1", 0, Treasury)).err = "ZeroAmount"
    /\ BridgeRevenue(World, Operator, now, BridgeArgs("inv_1", 3, ZeroAddr)).err = "ZeroAddress"
    /\ \E inv \in Invoices :
          BridgeRevenue(World, Operator, now, BridgeArgs(inv, 3, Treasury)).err
              = "InvoiceAlreadyProcessed"
    /\ SetAllocation(World, Owner, Config(5000, 3000, 2000, 1000)).err = "InvalidPercentages"
    /\ SetOperator(World, Owner, ZeroAddr).err = "ZeroAddress"
    /\ BridgeRevenue(Pause(World, Owner).st, Operator, now,
                     BridgeArgs("inv_1", 3, Treasury)).err = "EnforcedPause"

----------------------------------------------------------------------------
\* the errors the token partition store fails with
TokenErrors == {"Panic", "Insufficient balance"}

\* the amount of a split that goes to a partition
ShareOf(amts, partition) ==
    CASE partition = PARTITION_RESERVE -> amts.reserveAmt
      [] partition = PARTITION_LIQUIDITY -> amts.liquidityAmt
      [] partition = PARTITION_ENTERPRISE -> amts.enterpriseAmt
      [] partition = PARTITION_STAKING -> amts.stakingAmt

\* the world with the token store holding v for the account in the partition
\* (the store is a contract of its own: its balances also move without the bridge)
WithBalance(partition, account, v) ==
    [World EXCEPT !.balances[<<partition, account>>] = v]

(* C16: if the token partition store fails on any issue call during        *)
(* bridgeRevenue (also after earlier partitions were issued) or on any     *)
(* burn call during reverseSettlement (also after earlier partitions were  *)
(* burned), the whole call fails and nothing it did persists: no entry, no *)
(* invoice index, no totals or nonce change, no status change, no partial  *)
(* issuance or burn, no event; the invoice remains unprocessed and a later *)
(* retry can succeed.                                                      *)
C16_AllOrNothing_Here ==
    /\ \A sender \in Callers, id \in DOMAIN settlements :
          LET r == ReverseSettlement(World, sender, now, id, "REFUND")
          IN r.err \in TokenErrors
             => /\ r.st = World /\ r.events = <<>> /\ r.calls = <<>>
                /\ r.st.settlements[id].status = SETTLED
    /\ ~paused =>
         /\ \A a \in ProbeBridgeArgs :
               (/\ a.amount > 0 /\ InRange(a.amount) /\ a.beneficiary # ZeroAddr
                /\ ~InvoiceBridged(a.invoiceId))
               => /\ BridgeRevenue(World, bridgeOperator, now, a).err = "ok"
                  /\ \A p \in Partitions :
                        ShareOf(CalculateAllocations(allocation, a.amount).amts, p) > 0
                        => LET s == WithBalance(p, a.beneficiary, UintMax)
                               r == BridgeRevenue(s, bridgeOperator, now, a)
                           IN /\ r.err = "Panic"
                              /\ r.st = s /\ r.events = <<>> /\ r.calls = <<>>
                              /\ IsInvoiceProcessed(r.st, a.invoiceId).ret = <<FALSE>>
         /\ \A p \in Partitions, id \in DOMAIN settlements :
               (/\ settlements[id].status = SETTLED
                /\ ShareOf(CalculateAllocations(allocation, settlements[id].amount).amts,
                           p) > 0)
               => LET s == WithBalance(p, settlements[id].beneficiary, 0)
                      r == ReverseSettlement(s, bridgeOperator, now, id, "REFUND")
                  IN /\ r.err = "Insufficient balance"
                     /\ r.st = s /\ r.events = <<>> /\ r.calls = <<>>

(* C16: at all times, a bridgeRevenue whose issue call the token store     *)
(* refuses, and a reverseSettlement whose burn call it refuses, fail as a  *)
(* whole, also after earlier partitions were issued or burned; nothing     *)
(* they did persists, and the invoice can be bridged by a later retry.     *)
C16_AllOrNothing == []C16_AllOrNothing_Here

\* a SETTLED settlement whose reversal burns its reserve share and is then
\* refused the staking share by the token store
C16_Witness ==
    /\ ~paused
    /\ \E id \in DOMAIN settlements :
          LET e == settlements[id]
              c == CalculateAllocations(allocation, e.amount).amts
              r == ReverseSettlement(World, bridgeOperator, now, id, "REFUND")
          IN /\ e.status = SETTLED
             /\ r.err = "Insufficient balance"
             /\ c.reserveAmt > 0
             /\ BurnFromPartition(World, PARTITION_RESERVE, e.beneficiary, c.reserveAmt).ok
             /\ balances[<<PARTITION_STAKING, e.beneficiary>>] < c.stakingAmt

----------------------------------------------------------------------------
\* the outcome leaves the settlement nonce where it was
KeepsNonce(r) == r.st.settlementNonce = settlementNonce

\* ids are never null, never repeat, and the nonce counts the bridgings; a
\* bridgeRevenue that succeeds from here returns a fresh non-null id and
\* advances the nonce by one; a failing one, and every other operation,
\* leaves the nonce alone
C17_FreshId ==
    /\ NullId \notin DOMAIN settlements
    /\ settlementNonce = Cardinality(DOMAIN settlements)
    /\ \A id \in DOMAIN settlements :
          /\ settlements[id].settlementId = id
          /\ invoiceToSettlement[settlements[id].invoiceId] = id
    /\ \A sender \in Callers :
          /\ \A a \in CallBridgeArgs :
                LET r == BridgeRevenue(World, sender, now, a)
                    q == BridgeStripeRevenue(World, sender, now, a.invoiceId,
                                             a.amount, a.beneficiary)
                IN /\ IF r.err = "ok"
                      THEN /\ r.ret[1] # NullId
                           /\ r.ret[1] \notin DOMAIN settlements
                           /\ r.st.settlementNonce = settlementNonce + 1
                           /\ DOMAIN r.st.settlements = DOMAIN settlements \cup {r.ret[1]}
                      ELSE KeepsNonce(r)
                   /\ q.err # "ok" /\ KeepsNonce(q)
          /\ \A id \in KnownIds :
                /\ KeepsNonce(ReverseSettlement(World, sender, now, id, "REFUND"))
                /\ KeepsNonce(DisputeSettlement(World, sender, id))
          /\ \A new \in OperatorInputs : KeepsNonce(SetOperator(World, sender, new))
          /\ \A cfg \in ConfigInputs : KeepsNonce(SetAllocation(World, sender, cfg))
          /\ KeepsNonce(Pause(World, sender)) /\ KeepsNonce(Unpause(World, sender))

\* the nonce moves by one, together with exactly one new settlement
C17_Step ==
    /\ DOMAIN settlements \subseteq DOMAIN settlements'
    /\ (settlementNonce' # settlementNonce \/ DOMAIN settlements' # DOMAIN settlements)
       => /\ settlementNonce' = settlementNonce + 1
          /\ Cardinality(DOMAIN settlements' \ DOMAIN settlements) = 1

(* C17: every successful bridgeRevenue returns a settlementId that is not  *)
(* the null id and differs from the id of every settlement created         *)
(* earlier, also for calls at the same timestamp; the settlement nonce     *)
(* increases by exactly one per successful bridge and is not advanced by   *)
(* any failing call or by any other operation.                             *)
C17_UniqueSettlementIds == []C17_FreshId /\ [][C17_Step]_vars

\* two settlements bridged in the same block, with different ids
C17_Witness ==
    /\ settlementNonce = 2
    /\ \E i, j \in DOMAIN settlements :
          /\ i # j
          /\ settlements[i].bridgedAt = settlements[j].bridgedAt

----------------------------------------------------------------------------
(* C18: getSettlement called with a settlementId that no successful        *)
(* bridgeRevenue ever returned reports NotFound rather than returning a    *)
(* revenue entry.                                                          *)
C18_GetSettlementNotFound ==
    \A id \in {FakeId, NullId} \ DOMAIN settlements :
        LET r == GetSettlement(World, id)
        IN r.err = "SettlementNotFound" /\ r.ret = <<>>

----------------------------------------------------------------------------
\* the call was refused for its caller and changed nothing
RefusedNotOwner(r, sender) ==
    /\ r.err = "OwnableUnauthorizedAccount" /\ r.errArgs = <<sender>>
    /\ r.st = World /\ r.events = <<>>

\* whoever is not the owner, the current bridge operator included, is
\* refused by all four admin functions; the owner's call succeeds, changing
\* just the field it is about (pause when not paused, unpause when paused)
C19_OwnerOnly ==
    /\ \A sender \in Callers \ {Owner} :
          /\ \A new \in OperatorInputs :
                RefusedNotOwner(SetOperator(World, sender, new), sender)
          /\ \A cfg \in ConfigInputs :
                RefusedNotOwner(SetAllocation(World, sender, cfg), sender)
          /\ RefusedNotOwner(Pause(World, sender), sender)
          /\ RefusedNotOwner(Unpause(World, sender), sender)
    /\ \A new \in OperatorInputs \ {ZeroAddr} :
          LET r == SetOperator(World, Owner, new)
          IN r.err = "ok" /\ r.st = [World EXCEPT !.bridgeOperator = new]
    /\ \A cfg \in ConfigInputs :
          SumsTo10000(cfg)
          => LET r == SetAllocation(World, Owner, cfg)
             IN r.err = "ok" /\ r.st = [World EXCEPT !.allocation = cfg]
    /\ ~paused => LET r == Pause(World, Owner)
                  IN r.err = "ok" /\ r.st = [World EXCEPT !.paused = TRUE]
    /\ paused => LET r == Unpause(World, Owner)
                 IN r.err = "ok" /\ r.st = [World EXCEPT !.paused = FALSE]

\* operator, config and pause flag move only as the owner's successful call
\* moves them, one at a time
C19_Step ==
    /\ bridgeOperator' # bridgeOperator
       => /\ SetOperator(World, Owner, bridgeOperator').err = "ok"
          /\ allocation' = allocation /\ paused' = paused /\ settlements' = settlements
    /\ allocation' # allocation
       => /\ SetAllocation(World, Owner, allocation').err = "ok"
          /\ bridgeOperator' = bridgeOperator /\ paused' = paused
          /\ settlements' = settlements
    /\ paused' # paused
       => /\ (IF paused' THEN Pause(World, Owner) ELSE Unpause(World, Owner)).err = "ok"
          /\ bridgeOperator' = bridgeOperator /\ allocation' = allocation
          /\ settlements' = settlements

(* C19: setOperator, setAllocation, pause and unpause called by any        *)
(* identity other than the owner (including the current bridge operator)   *)
(* fail and leave operator, allocation config and pause flag unchanged;    *)
(* called by the owner with valid arguments they succeed.                  *)
C19_OwnerOnlyControlPlane == []C19_OwnerOnly /\ [][C19_Step]_vars

\* the owner has rotated the operator, changed the config and paused; the
\* new operator is refused the admin functions
C19_Witness ==
    /\ bridgeOperator = Outsider
    /\ allocation = Config(2500, 2500, 2500, 2500)
    /\ paused
    /\ Unpause(World, bridgeOperator).err = "OwnableUnauthorizedAccount"
    /\ SetOperator(World, bridgeOperator, Operator).err = "OwnableUnauthorizedAccount"
    /\ Unpause(World, Owner).err = "ok"

----------------------------------------------------------------------------
\* the world after the owner's setOperator(new)
Rotated(new) == SetOperator(World, Owner, new).st

(* C20: setOperator(null) fails with ZeroAddress and keeps the current     *)
(* operator; after a successful setOperator(new) the new identity is       *)
(* authorized for bridgeRevenue, reverseSettlement and disputeSettlement,  *)
(* and the previous operator (when it is not the owner and not the new     *)
(* operator) is rejected with Unauthorized on every such call for as long  *)
(* as it is not the operator.                                              *)
C20_OperatorRotation_Here ==
    /\ LET z == SetOperator(World, Owner, ZeroAddr)
       IN z.err = "ZeroAddress" /\ z.st = World /\ z.st.bridgeOperator = bridgeOperator
    /\ \A new \in OperatorInputs \ {ZeroAddr} :
          /\ SetOperator(World, Owner, new).err = "ok"
          /\ Rotated(new).bridgeOperator = new
          /\ \A a \in CallBridgeArgs :
                LET r == BridgeRevenue(Rotated(new), new, now, a)
                    o == BridgeRevenue(Rotated(new), bridgeOperator, now, a)
                IN /\ r.err # "Unauthorized"
                   /\ (/\ ~paused /\ a.amount > 0 /\ InRange(a.amount)
                       /\ a.beneficiary # ZeroAddr /\ ~InvoiceBridged(a.invoiceId))
                      => r.err = "ok"
                   /\ (bridgeOperator # Owner /\ bridgeOperator # new)
                      => (o.err = "Unauthorized" /\ o.st = Rotated(new))
          /\ \A id \in KnownIds :
                LET r == ReverseSettlement(Rotated(new), new, now, id, "REFUND")
                    d == DisputeSettlement(Rotated(new), new, id)
                    o == ReverseSettlement(Rotated(new), bridgeOperator, now, id, "REFUND")
                    p == DisputeSettlement(Rotated(new), bridgeOperator, id)
                IN /\ r.err # "Unauthorized" /\ d.err # "Unauthorized"
                   /\ id \in DOMAIN settlements => d.err = "ok"
                   /\ (bridgeOperator # Owner /\ bridgeOperator # new)
                      => /\ o.err = "Unauthorized" /\ o.st = Rotated(new)
                         /\ p.err = "Unauthorized" /\ p.st = Rotated(new)
    /\ \A sender \in Callers :
          (sender # bridgeOperator /\ sender # Owner)
          => /\ \A a \in CallBridgeArgs :
                   BridgeRevenue(World, sender, now, a).err = "Unauthorized"
             /\ \A id \in KnownIds :
                   /\ ReverseSettlement(World, sender, now, id, "REFUND").err = "Unauthorized"
                   /\ DisputeSettlement(World, sender, id).err = "Unauthorized"

(* C20: at all times setOperator(null) fails with ZeroAddress and keeps    *)
(* the operator; after a successful setOperator(new) the new identity is   *)
(* authorized for bridgeRevenue, reverseSettlement and disputeSettlement   *)
(* and the previous operator, when it is not the owner, is rejected with   *)
(* Unauthorized.                                                           *)
C20_OperatorRotation == []C20_OperatorRotation_Here

\* the operator was rotated: the new one reverses a settlement, the previous
\* one is refused
C20_Witness ==
    /\ bridgeOperator = Outsider
    /\ ~paused
    /\ \E id \in DOMAIN settlements :
          /\ ReverseSettlement(World, Outsider, now, id, "REFUND").err = "ok"
          /\ ReverseSettlement(World, Operator, now, id, "REFUND").err = "Unauthorized"
          /\ DisputeSettlement(World, Operator, id).err = "Unauthorized"
    /\ \E inv \in Invoices :
          /\ BridgeRevenue(World, Outsider, now, BridgeArgs(inv, 3, Treasury)).err = "ok"
          /\ BridgeRevenue(World, Operator, now, BridgeArgs(inv, 3, Treasury)).err
                 = "Unauthorized"

----------------------------------------------------------------------------
\* an authorized, unpaused bridgeRevenue with amount 0 is refused with
\* ZeroAmount, one with a positive amount and a null beneficiary with
\* ZeroAddress, and both leave everything as it was; no stored settlement
\* has amount 0 or a null beneficiary
C21_InputsValidated_Here ==
    /\ \A id \in DOMAIN settlements :
          settlements[id].amount > 0 /\ settlements[id].beneficiary # ZeroAddr
    /\ ~paused =>
         \A sender \in Callers, a \in ProbeBridgeArgs :
            (Authorized(sender) /\ (a.amount = 0 \/ a.beneficiary = ZeroAddr))
            => LET r == BridgeRevenue(World, sender, now, a)
               IN /\ a.amount = 0 => r.err = "ZeroAmount"
                  /\ (a.amount > 0 /\ a.beneficiary = ZeroAddr) => r.err = "ZeroAddress"
                  /\ r.st = World /\ r.events = <<>> /\ r.calls = <<>>
                  /\ IsInvoiceProcessed(r.st, a.invoiceId).ret
                         = <<InvoiceBridged(a.invoiceId)>>

(* C21: an authorized, unpaused bridgeRevenue with amount == 0 fails with  *)
(* ZeroAmount, and one with a null beneficiary fails with ZeroAddress;     *)
(* neither creates an entry, marks the invoice processed, changes totals   *)
(* or issues tokens, so no stored settlement ever has amount 0 or a null   *)
(* beneficiary.                                                            *)
C21_InputsValidated == []C21_InputsValidated_Here

\* after a bridging, with an invoice still open: the zero amount and the null
\* beneficiary are refused for it
C21_Witness ==
    /\ ~paused
    /\ Cardinality(DOMAIN settlements) = 1
    /\ \E inv \in Invoices :
          /\ ~InvoiceBridged(inv)
          /\ BridgeRevenue(World, Operator, now, BridgeArgs(inv, 0, Treasury)).err
                 = "ZeroAmount"
          /\ BridgeRevenue(World, Owner, now, BridgeArgs(inv, 3, ZeroAddr)).err
                 = "ZeroAddress"
          /\ BridgeRevenue(World, Operator, now, BridgeArgs(inv, 3, Treasury)).err = "ok"

----------------------------------------------------------------------------
\* disputeSettlement by the operator or the owner on a stored settlement
\* succeeds in every status, leaves the settlement DISPUTED and moves no money
C22_DisputeAlwaysSucceeds_Here ==
    \A sender \in Callers, id \in DOMAIN settlements :
       Authorized(sender)
       => LET r == DisputeSettlement(World, sender, id)
          IN /\ r.err = "ok"
             /\ r.st.settlements[id].status = DISPUTED
             /\ r.calls = <<>>
             /\ r.st.balances = balances
             /\ r.st.partitionTotals = partitionTotals
             /\ r.st.totalRevenueBridged = totalRevenueBridged
             /\ r.st.totalRevenueReversed = totalRevenueReversed
             /\ NetRevenue(r.st).err = NetRevenue(World).err
             /\ NetRevenue(r.st).ret = NetRevenue(World).ret

(* C22: disputeSettlement on any existing settlement, called by the       *)
(* operator or owner, succeeds whatever the current status (SETTLED,       *)
(* REVERSED or already DISPUTED), sets the status to DISPUTED, and has no  *)
(* monetary effect: partition balances, totalRevenueBridged,               *)
(* totalRevenueReversed and netRevenue are unchanged.                      *)
C22_DisputeAlwaysSucceeds == []C22_DisputeAlwaysSucceeds_Here

\* one settlement is REVERSED and another, disputed, keeps its tokens issued
C22_Witness ==
    \E id1, id2 \in DOMAIN settlements :
       /\ settlements[id1].status = DISPUTED
       /\ settlements[id2].status = REVERSED
       /\ \E p \in Partitions : balances[<<p, settlements[id1].beneficiary>>] > 0
       /\ DisputeSettlement(World, Owner, id2).err = "ok"
       /\ DisputeSettlement(World, Operator, id1).err = "ok"

----------------------------------------------------------------------------
\* what a bridging of amt adds to the four balances under the weights cfg:
\* three floored shares, the rest to staking
SplitsWith(cfg, amt, before, after) ==
    LET d == [p \in {"r", "l", "e", "k"} |->
                CASE p = "r" -> after.reserveAmt - before.reserveAmt
                  [] p = "l" -> after.liquidityAmt - before.liquidityAmt
                  [] p = "e" -> after.enterpriseAmt - before.enterpriseAmt
                  [] p = "k" -> after.stakingAmt - before.stakingAmt]
    IN /\ IsFloor(d["r"], amt * cfg.reserveBps, BASIS_POINTS)
       /\ IsFloor(d["l"], amt * cfg.liquidityBps, BASIS_POINTS)
       /\ IsFloor(d["e"], amt * cfg.enterpriseBps, BASIS_POINTS)
       /\ d["k"] = amt - d["r"] - d["l"] - d["e"]

\* a successful setAllocation replaces the stored config and nothing else,
\* and the bridgings that succeed after it split with the new weights
C23_NotRetroactive_Here ==
    \A sender \in Callers, cfg \in ConfigInputs :
       LET r == SetAllocation(World, sender, cfg)
       IN r.err = "ok" =>
            /\ r.st = [World EXCEPT !.allocation = cfg]
            /\ r.st.settlements = settlements
            /\ r.st.totalRevenueBridged = totalRevenueBridged
            /\ r.st.totalRevenueReversed = totalRevenueReversed
            /\ r.st.balances = balances
            /\ Len(r.events) = 1 /\ r.events[1].name = "AllocationUpdated"
            /\ r.calls = <<>>
            /\ \A caller \in Callers, a \in CallBridgeArgs :
                  LET b == BridgeRevenue(r.st, caller, now, a)
                  IN b.err = "ok" =>
                       SplitsWith(cfg, a.amount, BalancesOf(World, a.beneficiary),
                                  BalancesOf(b.st, a.beneficiary))

(* C23: setAllocation is not retroactive: a successful setAllocation       *)
(* changes only the stored config (and appends AllocationUpdated); it      *)
(* leaves every stored settlement, both totals and every partition balance *)
(* unchanged, and every bridgeRevenue that succeeds afterwards splits its  *)
(* amount with the new weights.                                            *)
C23_NotRetroactive == []C23_NotRetroactive_Here

\* a settlement bridged under the default config keeps its 1/0/0/2 while the
\* config is now the even one, under which a next bridging of 3 gives 0/0/0/3
C23_Witness ==
    /\ allocation = Config(2500, 2500, 2500, 2500)
    /\ Cardinality(DOMAIN settlements) = 1
    /\ BalancesOf(World, Treasury) = Split(1, 0, 0, 2)
    /\ totalRevenueBridged = 3 /\ totalRevenueReversed = 0
    /\ BalancesOf(BridgeRevenue(World, Operator, now,
                                BridgeArgs("inv_2", 3, Treasury)).st, Treasury)
          = Split(1, 0, 0, 5)

----------------------------------------------------------------------------
\* a successful bridgeRevenue stores, under the id it returns, the call's
\* arguments with status SETTLED and both timestamps at the time of the call;
\* no stored settlement is PENDING
C24_EntryAsCalled_Here ==
    /\ \A id \in DOMAIN settlements :
          /\ settlements[id].status # PENDING
          /\ settlements[id].settlementId = id
    /\ \A sender \in Callers, a \in ProbeBridgeArgs :
          LET r == BridgeRevenue(World, sender, now, a)
          IN r.err = "ok" =>
               /\ Len(r.ret) = 1
               /\ r.ret[1] \in DOMAIN r.st.settlements
               /\ r.ret[1] \notin DOMAIN settlements
               /\ LET e == r.st.settlements[r.ret[1]]
                  IN /\ e.invoiceId = a.invoiceId
                     /\ e.payer = a.payer
                     /\ e.beneficiary = a.beneficiary
                     /\ e.amount = a.amount
                     /\ e.currency = a.currency
                     /\ e.sourceSystem = a.sourceSystem
                     /\ e.destinationSystem = a.destinationSystem
                     /\ e.settlementId = r.ret[1]
                     /\ e.status = SETTLED
                     /\ e.bridgedAt = now
                     /\ e.settledAt = now
               /\ GetSettlement(r.st, r.ret[1]).ret = <<r.st.settlements[r.ret[1]]>>

(* C24: every successful bridgeRevenue stores an entry whose fields equal  *)
(* the call's arguments, whose settlementId is the returned id, whose      *)
(* status is SETTLED and whose bridgedAt and settledAt are the time of the *)
(* call; no stored (existing) settlement ever has status PENDING in any    *)
(* reachable state.                                                        *)
C24_EntryAsCalled == []C24_EntryAsCalled_Here

\* an entry bridged earlier is stored as called, and a further bridging
\* succeeds from here
C24_Witness ==
    /\ \E id \in DOMAIN settlements :
          /\ settlements[id].invoiceId = "inv_1"
          /\ settlements[id].amount = 3
          /\ settlements[id].beneficiary = Vault
          /\ settlements[id].payer = Payer
          /\ settlements[id].status = SETTLED
          /\ settlements[id].settlementId = id
          /\ settlements[id].bridgedAt = settlements[id].settledAt
          /\ settlements[id].bridgedAt < now
    /\ BridgeRevenue(World, Owner, now, BridgeArgs("inv_2", 99, Treasury)).err = "ok"

----------------------------------------------------------------------------
\* the sum of the amounts of the settlements stored under ids
RECURSIVE AmountsOf(_)
AmountsOf(ids) ==
    IF ids = {} THEN 0
    ELSE LET id == CHOOSE x \in ids : TRUE
         IN settlements[id].amount + AmountsOf(ids \ {id})

(* C25: ledger consistency in every reachable state: isInvoiceProcessed(inv) *)
(* is true exactly when a stored entry has invoiceId inv;                    *)
(* getSettlementByInvoice(inv) = sid, for a settlement id sid, implies the   *)
(* entry stored under sid has invoiceId inv and settlementId sid; and        *)
(* totalRevenueBridged equals the sum of the amounts of all stored entries.  *)
C25_LedgerConsistent ==
    /\ \A inv \in Invoices :
          /\ IsInvoiceProcessed(World, inv).ret[1]
                <=> (\E id \in DOMAIN settlements : settlements[id].invoiceId = inv)
          /\ LET sid == GetSettlementByInvoice(World, inv).ret[1]
             IN /\ sid # NullId =>
                     /\ sid \in DOMAIN settlements
                     /\ settlements[sid].invoiceId = inv
                     /\ settlements[sid].settlementId = sid
                /\ sid = NullId => ~IsInvoiceProcessed(World, inv).ret[1]
    /\ \A id \in DOMAIN settlements :
          /\ settlements[id].invoiceId \in Invoices
          /\ GetSettlementByInvoice(World, settlements[id].invoiceId).ret[1] = id
    /\ totalRevenueBridged = AmountsOf(DOMAIN settlements)

\* both invoices are bridged, to different beneficiaries, one of them reversed
C25_Witness ==
    /\ Cardinality(DOMAIN settlements) = 2
    /\ totalRevenueBridged = 6
    /\ \A inv \in Invoices : IsInvoiceProcessed(World, inv).ret[1]
    /\ \E id \in DOMAIN settlements : settlements[id].status = REVERSED
    /\ {settlements[id].beneficiary : id \in DOMAIN settlements} = Accounts

----------------------------------------------------------------------------
\* entry e with its status replaced by that of entry f
WithStatusOf(e, f) == [e EXCEPT !.status = f.status]

\* every step keeps every stored settlement, with all fields but the status
C26_Step ==
    \A id \in DOMAIN settlements :
       /\ id \in DOMAIN settlements'
       /\ WithStatusOf(settlements'[id], settlements[id]) = settlements[id]

\* a successful reversal or dispute changes the status of its target only
C26_OnlyTargetStatus ==
    \A sender \in Callers, id \in KnownIds :
       /\ LET r == ReverseSettlement(World, sender, now, id, "reason")
          IN r.err = "ok" =>
               /\ DOMAIN r.st.settlements = DOMAIN settlements
               /\ \A other \in DOMAIN settlements \ {id} :
                     r.st.settlements[other] = settlements[other]
               /\ WithStatusOf(r.st.settlements[id], settlements[id]) = settlements[id]
               /\ r.st.invoiceToSettlement = invoiceToSettlement
       /\ LET d == DisputeSettlement(World, sender, id)
          IN d.err = "ok" =>
               /\ DOMAIN d.st.settlements = DOMAIN settlements
               /\ \A other \in DOMAIN settlements \ {id} :
                     d.st.settlements[other] = settlements[other]
               /\ WithStatusOf(d.st.settlements[id], settlements[id]) = settlements[id]
               /\ d.st.invoiceToSettlement = invoiceToSettlement

(* C26: stored entries are immutable history: once created, a settlement   *)
(* is never deleted and its invoiceId, payer, beneficiary, amount,         *)
(* currency, sourceSystem, destinationSystem, settlementId, bridgedAt and  *)
(* settledAt never change under any operation; reverseSettlement and       *)
(* disputeSettlement change only the status of the settlement they target  *)
(* and leave every other settlement and the invoice index unchanged.       *)
C26_ImmutableHistory == []C26_OnlyTargetStatus /\ [][C26_Step]_vars

\* two settlements bridged at different times; one was reversed, the other
\* disputed, and both still carry what they were bridged with
C26_Witness ==
    \E id1, id2 \in DOMAIN settlements :
       /\ settlements[id1].status = REVERSED
       /\ settlements[id2].status = DISPUTED
       /\ settlements[id1].bridgedAt < settlements[id2].bridgedAt
       /\ settlements[id1].settledAt = settlements[id1].bridgedAt
       /\ settlements[id1].amount = 3 /\ settlements[id2].amount = 3
       /\ invoiceToSettlement[settlements[id1].invoiceId] = id1
       /\ invoiceToSettlement[settlements[id2].invoiceId] = id2

----------------------------------------------------------------------------
\* the token calls of kind k made for the account are one per partition whose
\* share in amts is positive, for that share, and no other
CallsMatch(calls, k, account, amts) ==
    /\ \A i \in 1..Len(calls) :
          /\ calls[i][1] = k /\ calls[i][3] = account /\ calls[i][4] > 0
          /\ calls[i][4] = ShareOf(amts, calls[i][2])
    /\ \A p \in Partitions :
          Cardinality({i \in 1..Len(calls) : calls[i][2] = p})
             = (IF ShareOf(amts, p) > 0 THEN 1 ELSE 0)

\* the PartitionIssued events of a call are one per partition whose share in
\* amts is positive, for that share
IssuedMatch(events, amts) ==
    \A p \in Partitions :
       LET is == {i \in 1..Len(events) :
                    events[i].name = "PartitionIssued" /\ events[i].partition = p}
       IN /\ Cardinality(is) = (IF ShareOf(amts, p) > 0 THEN 1 ELSE 0)
          /\ \A i \in is : events[i].amount = ShareOf(amts, p) /\ events[i].amount > 0

\* a successful bridgeRevenue calls issue, and emits PartitionIssued, for the
\* partitions with a positive share only; a successful reverseSettlement calls
\* burn for the partitions with a positive share only
C27_NoZeroIssue_Here ==
    /\ \A sender \in Callers, a \in ProbeBridgeArgs :
          LET r == BridgeRevenue(World, sender, now, a)
              c == CalculateAllocations(allocation, a.amount)
          IN r.err = "ok" =>
               /\ CallsMatch(r.calls, "issue", a.beneficiary, c.amts)
               /\ IssuedMatch(r.events, c.amts)
               /\ (a.amount = 1 /\ allocation = DefaultConfig)
                     => r.calls = << <<"issue", PARTITION_STAKING, a.beneficiary, 1>> >>
    /\ \A sender \in Callers, id \in KnownIds :
          LET r == ReverseSettlement(World, sender, now, id, "reason")
              c == CalculateAllocations(allocation, EntryAt(World, id).amount)
          IN r.err = "ok" =>
               CallsMatch(r.calls, "burn", EntryAt(World, id).beneficiary, c.amts)

(* C27: bridgeRevenue never asks the token partition store to issue a zero *)
(* amount: for each of the four partitions an issue call is made and a     *)
(* PartitionIssued event is emitted exactly when that partition's computed *)
(* amount is > 0 (e.g. amount 1 under the default config issues only to    *)
(* Staking); reverseSettlement likewise makes no burn call for a zero      *)
(* amount.                                                                 *)
C27_NoZeroIssue == []C27_NoZeroIssue_Here

\* a settlement of 3 was issued as 1/0/0/2 under the default config; from here
\* a bridging of 1 issues to Staking only and the reversal burns in two calls
C27_Witness ==
    /\ allocation = DefaultConfig
    /\ BalancesOf(World, Treasury) = Split(1, 0, 0, 2)
    /\ BridgeRevenue(World, Operator, now, BridgeArgs("inv_2", 1, Treasury)).calls
          = << <<"issue", PARTITION_STAKING, Treasury, 1>> >>
    /\ \E id \in DOMAIN settlements :
          ReverseSettlement(World, Operator, now, id, "reason").calls
             = << <<"burn", PARTITION_RESERVE, Treasury, 1>>,
                  <<"burn", PARTITION_STAKING, Treasury, 2>> >>

----------------------------------------------------------------------------
\* the settlements of a beneficiary that no RevenueReversed event is about
NeverReversed(account) ==
    {id \in DOMAIN settlements :
        settlements[id].beneficiary = account /\ id \notin reversalLog}

\* the total of the amounts of a sequence of token calls
RECURSIVE CallTotal(_)
CallTotal(calls) ==
    IF calls = <<>> THEN 0 ELSE Head(calls)[4] + CallTotal(Tail(calls))

(* C28: token conservation in total: when the token partition store is     *)
(* mutated only by this bridge, in every reachable state and for every     *)
(* beneficiary, the sum of its four partition balances equals the sum of   *)
(* the amounts of its settlements that have never been reversed; this      *)
(* holds also when setAllocation is called between a bridging and its      *)
(* reversal (a successful reversal always burns exactly entry.amount in    *)
(* total).                                                                 *)
C28_TokenConservation ==
    /\ \A account \in Accounts :
          SplitSum(BalancesOf(World, account)) = AmountsOf(NeverReversed(account))
    /\ \A sender \in Callers, id \in KnownIds :
          LET r == ReverseSettlement(World, sender, now, id, "reason")
          IN r.err = "ok" =>
               /\ CallTotal(r.calls) = settlements[id].amount
               /\ SplitSum(BalancesOf(r.st, settlements[id].beneficiary))
                     = SplitSum(BalancesOf(World, settlements[id].beneficiary))
                          - settlements[id].amount

\* two settlements of 3 for one beneficiary were issued as 1/0/0/2 each; one
\* was reversed under the even config, which burned 0/0/0/3
C28_Witness ==
    /\ allocation = Config(2500, 2500, 2500, 2500)
    /\ Cardinality(reversalLog) = 1
    /\ Cardinality(NeverReversed(Treasury)) = 1
    /\ BalancesOf(World, Treasury) = Split(2, 0, 0, 1)
    /\ BalancesOf(World, Vault) = Split(0, 0, 0, 0)

----------------------------------------------------------------------------
(* C29: reverseSettlement fails only for the ledger's own preconditions:   *)
(* when the token partition store is mutated only by this bridge and       *)
(* rejects a burn only if it exceeds the balance, a reverseSettlement call *)
(* by the operator or owner, while not paused, on an existing settlement   *)
(* whose status is SETTLED always succeeds, after any sequence of earlier  *)
(* operations (including setAllocation calls and other settlements for the *)
(* same beneficiary).                                                      *)
C29_SettledIsReversible ==
    ~paused =>
       \A sender \in Callers, id \in DOMAIN settlements :
          (Authorized(sender) /\ settlements[id].status = SETTLED)
          => ReverseSettlement(World, sender, now, id, "reason").err = "ok"

----------------------------------------------------------------------------
(* C30: in every reachable state totalRevenueReversed <=                   *)
(* totalRevenueBridged, so netRevenue() never underflows or fails;         *)
(* moreover totalRevenueReversed equals the sum of the amounts of the      *)
(* settlements that have been reversed, each counted once, whether or not  *)
(* they were later marked DISPUTED.                                        *)
C30_ReversedWithinBridged ==
    /\ totalRevenueReversed <= totalRevenueBridged
    /\ NetRevenue(World).err = "ok"
    /\ NetRevenue(World).ret[1] >= 0
    /\ reversalLog \subseteq DOMAIN settlements
    /\ totalRevenueReversed = AmountsOf(reversalLog)
    /\ \A id \in DOMAIN settlements :
          /\ settlements[id].status = REVERSED => id \in reversalLog
          /\ id \in reversalLog => settlements[id].status \in {REVERSED, DISPUTED}

\* two settlements are DISPUTED, one of them after its reversal: only that
\* one counts in the reversed total
C30_Witness ==
    /\ Cardinality(DOMAIN settlements) = 2
    /\ \A id \in DOMAIN settlements : settlements[id].status = DISPUTED
    /\ Cardinality(reversalLog) = 1
    /\ totalRevenueBridged = 6
    /\ totalRevenueReversed = 3
    /\ NetRevenue(World).ret = <<3>>

----------------------------------------------------------------------------
\* a DISPUTED settlement cannot be reversed, by anyone; the operator and the
\* owner, while not paused, are told InvalidSettlementStatus; a further
\* dispute leaves it DISPUTED
C31_DisputedRefusesReversal ==
    \A id \in DOMAIN settlements :
       settlements[id].status = DISPUTED =>
          /\ \A sender \in Callers :
                LET r == ReverseSettlement(World, sender, now, id, "reason")
                    d == DisputeSettlement(World, sender, id)
                IN /\ r.err # "ok"
                   /\ r.st = World /\ r.calls = <<>> /\ r.events = <<>>
                   /\ (Authorized(sender) /\ ~paused)
                      => /\ r.err = "InvalidSettlementStatus"
                         /\ r.errArgs = <<id, DISPUTED, SETTLED>>
                   /\ d.st.settlements[id].status = DISPUTED
          /\ id \notin reversalLog
             => /\ totalRevenueReversed = AmountsOf(reversalLog)
                /\ totalRevenueReversed
                      <= totalRevenueBridged - settlements[id].amount

\* a step leaves a DISPUTED settlement DISPUTED, emits no RevenueReversed for
\* it, and one disputed while SETTLED is not reversed by it
C31_Step ==
    \A id \in DOMAIN settlements :
       settlements[id].status = DISPUTED =>
          /\ id \in DOMAIN settlements'
          /\ settlements'[id].status = DISPUTED
          /\ (id \in reversalLog') = (id \in reversalLog)

----------------------------------------------------------------------------
\* ids no successful bridgeRevenue has returned: the null id, a made-up one,
\* and the ids the next bridgings would get
UnknownIds ==
    ({NullId, FakeId}
       \cup {GenerateSettlementId(inv, now, settlementNonce + 1) : inv \in Invoices})
    \ DOMAIN settlements

(* C32: reverseSettlement and disputeSettlement called by an authorized    *)
(* caller with a settlementId never returned by a successful bridgeRevenue *)
(* fail with SettlementNotFound (for reverseSettlement, while not paused,  *)
(* ahead of InvalidSettlementStatus) and change no state; conversely,      *)
(* every settlement created by a successful bridgeRevenue is found by      *)
(* later reverseSettlement and disputeSettlement calls and never reported  *)
(* as SettlementNotFound.                                                  *)
C32_UnknownSettlements ==
    \A sender \in Callers :
       Authorized(sender) =>
          /\ \A id \in UnknownIds :
                LET r == ReverseSettlement(World, sender, now, id, "reason")
                    d == DisputeSettlement(World, sender, id)
                IN /\ ~paused => /\ r.err = "SettlementNotFound"
                                 /\ r.errArgs = <<id>>
                   /\ r.err # "ok" /\ r.err # "InvalidSettlementStatus"
                   /\ r.st = World /\ r.calls = <<>> /\ r.events = <<>>
                   /\ d.err = "SettlementNotFound" /\ d.errArgs = <<id>>
                   /\ d.st = World /\ d.calls = <<>> /\ d.events = <<>>
          /\ \A id \in DOMAIN settlements :
                /\ settlements[id].bridgedAt > 0
                /\ ReverseSettlement(World, sender, now, id, "reason").err
                      # "SettlementNotFound"
                /\ DisputeSettlement(World, sender, id).err = "ok"

\* with one settlement stored, at a later time: it is found, and the id the
\* other invoice would get is not
C32_Witness ==
    /\ ~paused
    /\ Cardinality(DOMAIN settlements) = 1
    /\ \E id \in DOMAIN settlements :
          /\ settlements[id].bridgedAt < now
          /\ ReverseSettlement(World, Operator, now, id, "reason").err = "ok"
    /\ \E id \in UnknownIds :
          /\ id # NullId /\ id # FakeId
          /\ ReverseSettlement(World, Owner, now, id, "reason").err = "SettlementNotFound"
          /\ DisputeSettlement(World, Operator, id).err = "SettlementNotFound"

----------------------------------------------------------------------------
\* what bridgeRevenue answers, by the first check of its chain that fails
C33_ErrorPrecedence_Here ==
    \A sender \in Callers, a \in ProbeBridgeArgs :
       LET r == BridgeRevenue(World, sender, now, a)
       IN /\ ~Authorized(sender) => r.err = "Unauthorized"
          /\ (Authorized(sender) /\ paused) => r.err = "EnforcedPause"
          /\ (Authorized(sender) /\ ~paused /\ a.amount = 0) => r.err = "ZeroAmount"
          /\ (Authorized(sender) /\ ~paused /\ a.amount > 0 /\ a.beneficiary = ZeroAddr)
             => r.err = "ZeroAddress"
          /\ (/\ Authorized(sender) /\ ~paused /\ a.amount > 0
              /\ a.beneficiary # ZeroAddr /\ InvoiceBridged(a.invoiceId))
             => /\ r.err = "InvoiceAlreadyProcessed"
                /\ r.errArgs = <<a.invoiceId>>

(* C33: error precedence in bridgeRevenue is fixed: Unauthorized is        *)
(* reported before the paused error, the paused error before ZeroAmount,   *)
(* ZeroAmount before ZeroAddress (null beneficiary), and ZeroAddress       *)
(* before InvoiceAlreadyProcessed; e.g. an unauthorized caller while       *)
(* paused gets Unauthorized, and a repeat of an already-processed invoice  *)
(* with amount 0 gets ZeroAmount.                                          *)
C33_ErrorPrecedence == []C33_ErrorPrecedence_Here

\* paused, with inv_1 processed: a call that is wrong in every respect is
\* answered by who makes it; once unpaused, the same call gets ZeroAmount
C33_Witness ==
    /\ paused
    /\ InvoiceBridged("inv_1")
    /\ ~Authorized(Outsider) /\ Authorized(Operator)
    /\ BridgeRevenue(World, Outsider, now, BridgeArgs("inv_1", 0, ZeroAddr)).err
          = "Unauthorized"
    /\ BridgeRevenue(World, Operator, now, BridgeArgs("inv_1", 0, ZeroAddr)).err
          = "EnforcedPause"
    /\ LET u == Unpause(World, Owner)
       IN /\ u.err = "ok"
          /\ BridgeRevenue(u.st, Operator, now, BridgeArgs("inv_1", 0, ZeroAddr)).err
                = "ZeroAmount"
          /\ BridgeRevenue(u.st, Operator, now, BridgeArgs("inv_1", 3, ZeroAddr)).err
                = "ZeroAddress"
          /\ BridgeRevenue(u.st, Operator, now, BridgeArgs("inv_1", 3, Vault)).err
                = "InvoiceAlreadyProcessed"

----------------------------------------------------------------------------
\* a bridgeRevenue that answers InvoiceAlreadyProcessed has done nothing
C34_DuplicateHasNoEffect_Here ==
    \A sender \in Callers, a \in ProbeBridgeArgs :
       LET r == BridgeRevenue(World, sender, now, a)
       IN r.err = "InvoiceAlreadyProcessed" =>
            /\ r.calls = <<>>
            /\ r.events = <<>>
            /\ r.st.balances = balances
            /\ r.st.partitionTotals = partitionTotals
            /\ r.st.settlementNonce = settlementNonce
            /\ \A inv \in Invoices :
                  LET n == BridgeRevenue(r.st, sender, now, BridgeArgs(inv, 3, Treasury))
                  IN n.err = "ok" =>
                       n.ret = <<GenerateSettlementId(inv, now, settlementNonce + 1)>>

(* C34: a duplicate-invoice rejection has no effect on the token partition *)
(* store: when bridgeRevenue fails with InvoiceAlreadyProcessed, no issue  *)
(* or burn call is made, no PartitionIssued or RevenueBridged event is     *)
(* emitted, and the settlement nonce is not consumed.                      *)
C34_DuplicateHasNoEffect == []C34_DuplicateHasNoEffect_Here

\* inv_1 is processed under nonce 1; a repeat of it is refused, and the
\* bridging of inv_2 that follows gets nonce 2
C34_Witness ==
    /\ settlementNonce = 1
    /\ InvoiceBridged("inv_1") /\ ~InvoiceBridged("inv_2")
    /\ LET r == BridgeRevenue(World, Operator, now, BridgeArgs("inv_1", 99, Vault))
       IN /\ r.err = "InvoiceAlreadyProcessed"
          /\ BridgeRevenue(r.st, Operator, now, BridgeArgs("inv_2", 99, Vault)).ret
                = << <<"inv_2", now, 2>> >>

----------------------------------------------------------------------------
\* floor(amt * bps / 10000), computed without forming amt * bps
ShareFloor(amt, bps) ==
    (amt \div BASIS_POINTS) * bps + ((amt % BASIS_POINTS) * bps) \div BASIS_POINTS

(* C35: for every amount >= 0 and every config summing to 10000, the       *)
(* staking amount returned by the allocation calculator is never below its *)
(* own truncated proportional share floor(amount*stakingBps/10000) and     *)
(* exceeds it by at most 3 units; the subtraction amount - reserve -       *)
(* liquidity - enterprise never goes negative.                             *)
C35_StakingRemainder ==
    calcOut # <<>> =>
       /\ calcOut[1].err \in {"ok", "Panic"}
       /\ calcOut[1].err = "Panic" => ~CalcFits
       /\ calcOut[1].err = "ok" =>
            LET x == calcOut[1].ret[1]
                own == ShareFloor(calcIn, allocation.stakingBps)
            IN /\ x.stakingAmt >= own
               /\ x.stakingAmt <= own + 3
               /\ x.stakingAmt >= 0
               /\ calcIn - x.reserveAmt - x.liquidityAmt - x.enterpriseAmt >= 0

\* 3 under four even weights: each own share is 0 and staking gets all 3
C35_Witness ==
    /\ calcIn = 3
    /\ allocation = Config(2500, 2500, 2500, 2500)
    /\ ShareFloor(calcIn, allocation.stakingBps) = 0
    /\ calcOut = << [err |-> "ok", ret |-> <<Split(0, 0, 0, 3)>>] >>

----------------------------------------------------------------------------
\* the world as a callee sees it while a nonReentrant function of the bridge
\* runs on s
During(s) == [s EXCEPT !.guard = ENTERED]

\* the worlds a token-store callback can find the bridge in: a guarded call
\* has begun, or has made the writes and token calls of a bridging or of a
\* reversal that is about to succeed
MidCall ==
    {During(World)}
      \cup {During(BridgeRevenue(World, bridgeOperator, now, BridgeArgs(inv, 3, ben)).st) :
               inv \in Invoices, ben \in Accounts}
      \cup {During(ReverseSettlement(World, bridgeOperator, now, id, "reason").st) :
               id \in DOMAIN settlements}

\* who may call back: the callers, the token store, the bridge itself
NestedCallers == Callers \cup {Token, Self}

\* a nested call is refused, by the guard when its maker passes onlyOperator
Refused(r, s, sender) ==
    /\ r.err = (IF OnlyOperator(s, sender) THEN "ReentrancyGuardReentrantCall"
                ELSE "Unauthorized")
    /\ r.st = s /\ r.calls = <<>> /\ r.events = <<>>

\* in every world a callback can find, bridgeRevenue, bridgeStripeRevenue and
\* reverseSettlement are refused to everyone
C36_NoReentry_Here ==
    \A s \in MidCall, sender \in NestedCallers :
       /\ s.guard = ENTERED
       /\ \A a \in CallBridgeArgs : Refused(BridgeRevenue(s, sender, now, a), s, sender)
       /\ \A inv \in Invoices :
             Refused(BridgeStripeRevenue(s, sender, now, inv, 3, Treasury), s, sender)
       /\ \A id \in DOMAIN s.settlements \cup {FakeId} :
             Refused(ReverseSettlement(s, sender, now, id, "reason"), s, sender)

(* C36: re-entrancy: while a bridgeRevenue, bridgeStripeRevenue or         *)
(* reverseSettlement call is in progress (in particular during its calls   *)
(* into the token partition store), any nested call to bridgeRevenue,      *)
(* bridgeStripeRevenue or reverseSettlement is rejected, so a callback     *)
(* from the token store can neither create a second settlement nor reverse *)
(* one in the middle of an operation.                                      *)
C36_NoReentry == []C36_NoReentry_Here

\* one settlement is SETTLED and one invoice open, not paused: outside a call
\* the operator could bridge and reverse, from inside one it is refused both
C36_Witness ==
    /\ ~paused /\ guard = NOT_ENTERED
    /\ \E id \in DOMAIN settlements, inv \in Invoices :
          /\ ReverseSettlement(World, Operator, now, id, "reason").err = "ok"
          /\ BridgeRevenue(World, Operator, now, BridgeArgs(inv, 3, Vault)).err = "ok"
          /\ ReverseSettlement(During(World), Operator, now, id, "reason").err
                = "ReentrancyGuardReentrantCall"
          /\ BridgeRevenue(During(World), Operator, now, BridgeArgs(inv, 3, Vault)).err
                = "ReentrancyGuardReentrantCall"
          /\ BridgeRevenue(During(World), Token, now, BridgeArgs(inv, 3, Vault)).err
                = "Unauthorized"

----------------------------------------------------------------------------
(* C37: construction: creating the bridge with a null token store, null    *)
(* operator or null owner fails with ZeroAddress; otherwise the initial    *)
(* state has the given operator and owner, allocation 4000/3000/2000/1000  *)
(* basis points, totalRevenueBridged = totalRevenueReversed = 0, no        *)
(* processed invoice, no settlement, and is not paused.                    *)
C37_Construction ==
    /\ (settlementNonce = 0 /\ bridgeOperator = Operator /\ allocation = DefaultConfig
          /\ ~paused)
       => World = Constructor(Token, Operator, Owner).st
    /\ \A _nbptToken \in {ZeroAddr, Token}, _operator \in {ZeroAddr, Operator, Outsider},
          _owner \in {ZeroAddr, Owner} :
          LET r == Constructor(_nbptToken, _operator, _owner)
          IN IF _nbptToken = ZeroAddr \/ _operator = ZeroAddr \/ _owner = ZeroAddr
             THEN r.err = "ZeroAddress"
             ELSE /\ r.err = "ok"
                  /\ r.st.bridgeOperator = _operator
                  /\ owner = _owner
                  /\ r.st.allocation = Config(4000, 3000, 2000, 1000)
                  /\ r.st.totalRevenueBridged = 0 /\ r.st.totalRevenueReversed = 0
                  /\ \A inv \in Invoices : ~IsInvoiceProcessed(r.st, inv).ret[1]
                  /\ r.st.settlements = <<>>
                  /\ ~r.st.paused

----------------------------------------------------------------------------
\* the amounts the token store is asked about
TokenAmounts == {0, 1, 3, UintMax}

(* C38: token partition store (as mocked): burnFromPartition with an       *)
(* amount greater than the account's balance in that partition fails and   *)
(* changes no balance, so no partition balance is ever negative;           *)
(* issueToPartition and burnFromPartition change only the balance of the   *)
(* named (partition, account) pair.                                        *)
C38_TokenStore ==
    /\ \A k \in DOMAIN balances : balances[k] >= 0
    /\ \A partition \in Partitions, account \in Accounts, amount \in TokenAmounts :
          LET b == BurnFromPartition(World, partition, account, amount)
              i == IssueToPartition(World, partition, account, amount)
              held == BalanceOfByPartition(World, partition, account)
          IN /\ amount > held => ~b.ok /\ b.st = World
             /\ amount <= held => b.ok
             /\ b.ok => b.st.balances
                           = [balances EXCEPT ![<<partition, account>>] = held - amount]
             /\ i.ok => i.st.balances
                           = [balances EXCEPT ![<<partition, account>>] = held + amount]
             /\ ~i.ok => i.st = World
             /\ b.st.balances[<<partition, account>>] >= 0
             /\ \A k \in DOMAIN balances \ {<<partition, account>>} :
                   b.st.balances[k] = balances[k] /\ i.st.balances[k] = balances[k]

\* treasury holds 1/0/0/2 and the vault 0/0/0/3: a burn of 3 from treasury's
\* staking fails, a burn of 2 empties it and touches nothing else
C38_Witness ==
    /\ BalancesOf(World, Treasury) = Split(1, 0, 0, 2)
    /\ BalancesOf(World, Vault) = Split(0, 0, 0, 3)
    /\ ~BurnFromPartition(World, PARTITION_STAKING, Treasury, 3).ok
    /\ LET b == BurnFromPartition(World, PARTITION_STAKING, Treasury, 2)
       IN /\ b.ok
          /\ BalancesOf(b.st, Treasury) = Split(1, 0, 0, 0)
          /\ BalancesOf(b.st, Vault) = Split(0, 0, 0, 3)

====
